---- MODULE Spec2Model ----
(***************************************************************************)
(* Model of the scraping scripts of yum08/nocho:                           *)
(*   - the Apify REST job clients (apify_x_scraper.py,                     *)
(*     apify_linkedin_scraper.py, apify_telegram_scraper.py): submit a     *)
(*     run, poll its status with a timeout, read the dataset pages,        *)
(*     normalise, aggregate over the targets, save;                        *)
(*   - the orchestrator of unified_scraper.py: backend selection, the      *)
(*     Apify actor call or the Telethon session, filters, save;            *)
(*   - _apply_filters on its own, over bounded lists of records;           *)
(*   - the normalisers (process_results, process_post, the result mapping  *)
(*     of scrape_channels), over bounded lists of raw records.             *)
(* The remote service is the environment: every response (HTTP outcome,    *)
(* run status, dataset contents) is a nondeterministic choice.             *)
(***************************************************************************)
EXTENDS Integers, Sequences, FiniteSets, TLC

----------------------------------------------------------------------------
(* Bounds of the model *)

\* number of targets (handles / profiles) of a batch
MaxTargets == 2
\* largest --wait-timeout tried, in seconds
MaxTimeout == 6
\* longest time one status request takes, in seconds
MaxLatency == 1
\* largest dataset of a job in a batch
MaxItems == 2
\* largest dataset in the pagination specification
MaxDataset == 5
\* largest page size tried in the pagination specification (the scripts use 1000)
MaxPage == 3
\* page size used inside a batch, standing for limit = 1000
PageLimit == 2
\* number of channels of a unified scrape
MaxChannels == 2
\* longest list of records handed to _apply_filters in the filter specification
MaxMsgs == 3
MaxLimit == 2
\* longest list of raw records in the normalisation specification
MaxRaw == 3
\* longest target string given to a target normaliser
MaxStr == 4
\* most handles / channels / profiles, search terms and URLs of a request
MaxHandles == 2
MaxSearch == 2
MaxUrls == 1
\* number of default handles / profiles, standing for len(DEFAULT_HANDLES) = 6
\* and len(DEFAULT_PROFILES) = 1
NDefault == 1

(* Program constants *)

\* time.sleep(poll_interval) / time.sleep(5)
PollInterval == 5
\* build_actor_input of Telegram, 'media': min(max_posts, 200), min(days, 30)
MediaMaxPosts == 200
MediaMaxDays == 30
\* scrape_profile of LinkedIn: min(max_posts, 100)
LinkedInMaxLimit == 100

----------------------------------------------------------------------------
VARIABLES
    script,        \* which script runs: "x" | "linkedin" | "telegram"
    ntargets,      \* len(normalized) / len(profiles); 1 job for "telegram"
    wait_timeout,  \* args.wait_timeout
    limit,         \* get_dataset_items: limit
    pc,            \* position of main
    idx,           \* index of the target of the current loop iteration
    all_results,   \* main: all_results / all_posts / processed
    outcome,       \* per target: how its job ended (history)
    yielded,       \* per target: what scrape_single_handle/scrape_profile returned
    submits,       \* per target: number of create-run requests issued
    exported,      \* save_results wrote the export files
    raised,        \* the request whose HTTPError left main, "none" when none did
    run_id,        \* run id of the current job, 0 when there is none
    remote,        \* status of the current run on the remote service
    now,           \* time.time() - start_time of the current wait_for_run
    status,        \* status of the mapping wait_for_run returned, "NONE" when absent
    timedOut,      \* wait_for_run left its loop because the timeout elapsed
    statusReqs,    \* status requests issued for the current job
    observed,      \* status the last in-loop status request answered, "NONE" before
    lateReqs,      \* status requests issued after a terminal status was observed
    ds,            \* items of the current job's dataset on the remote service
    offset,        \* get_dataset_items: offset
    items,         \* get_dataset_items: items
    pageReqs,      \* dataset page requests issued for the current job
    \* unified_scraper.py
    backend,          \* config.backend: "auto" | "apify" | "telethon"
    env_token,        \* os.getenv('APIFY_API_TOKEN')
    env_api_id,       \* os.getenv('TELEGRAM_API_ID')
    env_api_hash,     \* os.getenv('TELEGRAM_API_HASH')
    nchannels,        \* len(config.channels)
    filter_keywords,  \* config.filter_keywords
    filter_min_views, \* config.filter_min_views
    date_from,        \* config.date_from, 0 for None
    date_to,          \* config.date_to, 0 for None
    config_limit,     \* config.limit of unified_scraper.py
    upc,              \* position of unified main
    selected,         \* scrape: backend, "none" before select_backend returned
    uraised,          \* the call whose exception left unified main, "none" when none did
    connects,         \* backend clients created (ApifyClient / TelegramClient)
    started,          \* client.start() calls begun on the Telethon client
    disconnects,      \* client.disconnect() calls
    actor_calls,      \* Apify actor runs started
    iterated,         \* channels whose iter_messages was started, in order
    all_messages,     \* scrape: all_messages
    messages,         \* main: messages, what scrape returned
    files,            \* save_results wrote the output files
    \* process_results / process_post / the result mapping of scrape_channels
    norm,             \* the normaliser: "x" | "telegram" | "linkedin" | "unified"
    source_handle,    \* process_results of X: source_handle
    raw_items,        \* items: the raw records handed to the normaliser
    ni,               \* position of the loop over items
    processed,        \* processed / messages: the records built so far
    origin,           \* per record of processed: position of its raw item (history)
    npass,            \* 1 in the first application to raw_items, 2 in the second
    first_pass,       \* what the first application returned
    media_in,         \* per raw item: its media structures
    media_out,        \* per record of processed: media_urls before the join
    \* normalize_handle / normalize_channel / normalize_profile
    target_in,        \* the target as the caller gave it
    target_shown,     \* main: the normalised target it displays
    target_sent,      \* the callee: the target normalised again, as it is sent
    tpc,              \* "idle" | "given" | "shown" | "sent"
    \* the request of a run and the jobs it submits
    sub_script,       \* the script: "x" | "telegram" | "linkedin"
    actor,            \* args.actor
    nh,               \* number of handles / channels / profiles given
    ns,               \* len(args.search), X only
    nu,               \* len(args.urls), X only
    max_posts,        \* args.max_posts / args.max_tweets
    days,             \* args.days, Telegram only
    posts_from,       \* args.posts_from, 0 for None
    posts_to,         \* args.posts_to, 0 for None
    spc,              \* position of main
    si,               \* position of the loop over handles / search terms / profiles
    jobs,             \* the actor inputs posted to create a run, in order (history)
    \* the export sink
    export_rows       \* the rows save_results wrote to the CSV file

cfgVars == <<script, ntargets, wait_timeout, limit>>
batchVars == <<pc, idx, all_results, outcome, yielded, submits, exported, raised>>
jobVars == <<run_id, remote, now, status, timedOut, statusReqs, observed, lateReqs>>
fetchVars == <<ds, offset, items, pageReqs>>
uniCfgVars == <<backend, env_token, env_api_id, env_api_hash, nchannels,
                filter_keywords, filter_min_views, date_from, date_to, config_limit>>
uniRunVars == <<upc, selected, uraised, connects, started, disconnects, actor_calls,
                iterated, all_messages, messages, files>>
uniVars == <<uniCfgVars, uniRunVars>>
normVars == <<norm, source_handle, raw_items, ni, processed, origin, npass, first_pass,
             media_in, media_out, target_in, target_shown, target_sent, tpc>>
subVars == <<sub_script, actor, nh, ns, nu, max_posts, days, posts_from, posts_to,
             spc, si, jobs>>
sinkVars == <<export_rows>>
vars == <<cfgVars, batchVars, jobVars, fetchVars, uniVars, normVars, subVars, sinkVars>>

----------------------------------------------------------------------------
(* Values *)

Scripts == {"x", "linkedin", "telegram"}
NonTerminal == {"READY", "RUNNING"}
\* the tuple tested by wait_for_run
Terminal == {"SUCCEEDED", "FAILED", "ABORTED", "TIMED-OUT"}

\* statuses the remote may report next: a run only moves forward and a
\* terminal status is final
Succ(s) ==
    IF s \in Terminal THEN {s}
    ELSE IF s = "READY" THEN NonTerminal \cup Terminal
    ELSE {"RUNNING"} \cup Terminal

\* raw items: k is the item's position in the dataset; a "demo" item carries
\* the noResults/demo flag that the X normaliser skips
Kinds == {"post", "demo"}
DatasetsOfLen(n) == { [i \in 1..n |-> [k |-> i, kind |-> f[i]]] : f \in [1..n -> Kinds] }
Datasets(max) == UNION { DatasetsOfLen(n) : n \in 0..max }

\* the --wait-timeout values tried: none, one poll interval, the largest
WaitTimeouts == {0, PollInterval, MaxTimeout}

Min(a, b) == IF a < b THEN a ELSE b

\* process_results / process_post: the canonical records of the raw items of
\* target t. The X normaliser drops noResults/demo items, the others keep all.
process_results(raw, t) ==
    LET Real(item) == item.kind # "demo"
        kept == IF script = "x" THEN SelectSeq(raw, Real) ELSE raw
    IN  [i \in 1..Len(kept) |-> [target |-> t, id |-> kept[i].k]]

\* the page the remote serves for offset/limit
Page(d, off, lim) == SubSeq(d, off + 1, Min(off + lim, Len(d)))

----------------------------------------------------------------------------
(* main's per-target loop *)

ReturnToMain_StopsOnFailure(results, oc) ==
    /\ all_results' = all_results \o results
    /\ outcome' = [outcome EXCEPT ![idx] = oc]
    /\ yielded' = [yielded EXCEPT ![idx] = results]
    /\ idx' = idx + 1
    /\ pc' = IF idx + 1 <= ntargets /\ oc # "failed" THEN "submit" ELSE "save"
    /\ raised' = raised
    /\ run_id' = 0
    /\ remote' = "READY"
    /\ now' = 0
    /\ status' = "NONE"
    /\ timedOut' = FALSE
    /\ statusReqs' = 0
    /\ observed' = "NONE"
    /\ lateReqs' = 0

ReturnToMain_Retries(results, oc) ==
    /\ all_results' = all_results \o results
    /\ outcome' = [outcome EXCEPT ![idx] = oc]
    /\ yielded' = [yielded EXCEPT ![idx] = results]
    /\ idx' = IF oc = "failed" THEN idx ELSE idx + 1
    /\ pc' = IF oc = "failed" \/ idx + 1 <= ntargets THEN "submit" ELSE "save"
    /\ raised' = raised
    /\ run_id' = 0
    /\ remote' = "READY"
    /\ now' = 0
    /\ status' = "NONE"
    /\ timedOut' = FALSE
    /\ statusReqs' = 0
    /\ observed' = "NONE"
    /\ lateReqs' = 0

\* the current target's call returned `results` (its locals are gone): main
\* extends the aggregate and goes on with the next target, or to save_results
\* after the last
ReturnToMain(results, oc) ==
    /\ all_results' = all_results \o results
    /\ outcome' = [outcome EXCEPT ![idx] = oc]
    /\ yielded' = [yielded EXCEPT ![idx] = results]
    /\ idx' = idx + 1
    /\ pc' = IF idx + 1 <= ntargets THEN "submit" ELSE "save"
    /\ raised' = raised
    /\ run_id' = 0
    /\ remote' = "READY"
    /\ now' = 0
    /\ status' = "NONE"
    /\ timedOut' = FALSE
    /\ statusReqs' = 0
    /\ observed' = "NONE"
    /\ lateReqs' = 0

\* apify_request: raise_for_status raises on a non-2xx answer to the `req`
\* request; nothing catches it, and the exception leaves main
Raise(req) ==
    /\ pc' = "crashed"
    /\ raised' = req
    /\ UNCHANGED <<idx, all_results, outcome, yielded>>

\* start_actor_run answered with a run id
StartRunOk ==
    /\ pc = "submit"
    /\ submits' = [submits EXCEPT ![idx] = @ + 1]
    /\ run_id' = idx
    /\ remote' = "READY"
    /\ now' = 0
    /\ status' = "NONE"
    /\ timedOut' = FALSE
    /\ statusReqs' = 0
    /\ observed' = "NONE"
    /\ lateReqs' = 0
    /\ pc' = "poll"
    /\ UNCHANGED <<idx, all_results, outcome, yielded, exported, raised>>
    /\ UNCHANGED <<cfgVars, normVars, subVars, sinkVars, uniVars, fetchVars>>

\* start_actor_run answered 2xx with no id in the data
StartRunNoId ==
    /\ pc = "submit"
    /\ submits' = [submits EXCEPT ![idx] = @ + 1]
    /\ IF script = "telegram"
       THEN \* main does not test run_id and polls with it
            /\ run_id' = 0
            /\ remote' = "READY"
            /\ now' = 0
            /\ status' = "NONE"
            /\ timedOut' = FALSE
            /\ statusReqs' = 0
            /\ observed' = "NONE"
            /\ lateReqs' = 0
            /\ pc' = "poll"
            /\ UNCHANGED <<idx, all_results, outcome, yielded, raised>>
       ELSE ReturnToMain(<<>>, "nostart")
    /\ UNCHANGED <<exported, cfgVars, normVars, subVars, sinkVars, uniVars, fetchVars>>

\* start_actor_run: the create-run request answered non-2xx,
\* raise_for_status raises out of main
StartRunHttpError ==
    /\ pc = "submit"
    /\ submits' = [submits EXCEPT ![idx] = @ + 1]
    /\ Raise("submit")
    /\ UNCHANGED <<exported, cfgVars, normVars, subVars, sinkVars, uniVars, jobVars, fetchVars>>

start_actor_run == StartRunOk \/ StartRunNoId \/ StartRunHttpError

InLoop_StopsEarly(t) ==
    IF script = "linkedin" THEN t + PollInterval < wait_timeout
    ELSE ~(t + PollInterval > wait_timeout)

\* whether wait_for_run's loop goes on at elapsed time t
InLoop(t) ==
    IF script = "linkedin" THEN t < wait_timeout ELSE ~(t > wait_timeout)

Sleep_None(t) == t

\* time.sleep(poll_interval) called at time t: the time it returns
Sleep(t) == t + PollInterval

\* one iteration of wait_for_run's loop: the status request, then return on a
\* terminal status or sleep
PollStatus ==
    /\ pc = "poll"
    /\ InLoop(now)
    /\ run_id # 0
    /\ \E d \in 0..MaxLatency, s \in Succ(remote) :
        /\ remote' = s
        /\ observed' = s
        /\ statusReqs' = statusReqs + 1
        /\ lateReqs' = lateReqs + (IF observed \in Terminal THEN 1 ELSE 0)
        /\ IF s \in Terminal
           THEN /\ status' = s
                /\ now' = now + d
                /\ pc' = "decide"
           ELSE /\ status' = status
                /\ now' = Sleep(now + d)
                /\ pc' = "poll"
    /\ UNCHANGED <<run_id, timedOut>>
    /\ UNCHANGED <<idx, all_results, outcome, yielded, submits, exported, raised>>
    /\ UNCHANGED <<cfgVars, normVars, subVars, sinkVars, uniVars, fetchVars>>

\* a status request of the loop answered non-2xx (always so without a run id)
PollHttpError ==
    /\ pc = "poll"
    /\ InLoop(now)
    /\ statusReqs' = statusReqs + 1
    /\ lateReqs' = lateReqs + (IF observed \in Terminal THEN 1 ELSE 0)
    /\ Raise("poll")
    /\ UNCHANGED <<run_id, remote, now, status, timedOut, observed>>
    /\ UNCHANGED <<submits, exported, cfgVars, normVars, subVars, sinkVars, uniVars, fetchVars>>

\* the status of the mapping wait_for_run returns once the timeout elapsed:
\* X and Telegram return the data of one more status request, which answered
\* s; LinkedIn returns {}
TimeoutStatus_Synthetic(s) == "TIMED-OUT"

TimeoutStatus(s) == IF script = "linkedin" THEN "NONE" ELSE s

\* the timeout elapsed. X and Telegram: one more status request, whose data is
\* returned as it is. LinkedIn: returns {}.
PollTimeout ==
    /\ pc = "poll"
    /\ ~InLoop(now)
    /\ timedOut' = TRUE
    /\ IF script = "linkedin"
       THEN /\ status' = TimeoutStatus("NONE")
            /\ UNCHANGED <<remote, now, statusReqs, lateReqs>>
       ELSE /\ run_id # 0
            /\ \E d \in 0..MaxLatency, s \in Succ(remote) :
                /\ remote' = s
                /\ status' = TimeoutStatus(s)
                /\ now' = now + d
            /\ statusReqs' = statusReqs + 1
            /\ lateReqs' = lateReqs + (IF observed \in Terminal THEN 1 ELSE 0)
    /\ pc' = "decide"
    /\ UNCHANGED <<run_id, observed>>
    /\ UNCHANGED <<idx, all_results, outcome, yielded, submits, exported, raised>>
    /\ UNCHANGED <<cfgVars, normVars, subVars, sinkVars, uniVars, fetchVars>>

\* the status request made after the timeout answered non-2xx
PollTimeoutHttpError ==
    /\ pc = "poll"
    /\ ~InLoop(now)
    /\ script # "linkedin"
    /\ timedOut' = TRUE
    /\ statusReqs' = statusReqs + 1
    /\ lateReqs' = lateReqs + (IF observed \in Terminal THEN 1 ELSE 0)
    /\ Raise("last_poll")
    /\ UNCHANGED <<run_id, remote, now, status, observed>>
    /\ UNCHANGED <<submits, exported, cfgVars, normVars, subVars, sinkVars, uniVars, fetchVars>>

wait_for_run == PollStatus \/ PollHttpError \/ PollTimeout \/ PollTimeoutHttpError

\* the caller reads the mapping wait_for_run returned: whether the dataset is
\* fetched. hasDs: the mapping holds a defaultDatasetId.
FetchAllowed ==
    IF script = "telegram" THEN status \notin {"FAILED", "ABORTED"}
    ELSE status = "SUCCEEDED"

\* status # SUCCEEDED in scrape_single_handle / scrape_profile: return [];
\* in the Telegram main FAILED and ABORTED end the process, sys.exit(1)
AfterWaitNoFetch ==
    /\ pc = "decide"
    /\ ~FetchAllowed
    /\ IF script = "telegram"
       THEN /\ pc' = "exited"
            /\ UNCHANGED <<idx, all_results, outcome, yielded, raised, jobVars>>
       ELSE ReturnToMain(<<>>, "failed")
    /\ UNCHANGED <<submits, exported, cfgVars, normVars, subVars, sinkVars, uniVars, fetchVars>>

\* no defaultDatasetId in the final run data
AfterWaitNoDataset ==
    /\ pc = "decide"
    /\ FetchAllowed
    /\ IF script = "telegram"
       THEN /\ pc' = "exited"
            /\ UNCHANGED <<idx, all_results, outcome, yielded, raised, jobVars>>
       ELSE ReturnToMain(<<>>, "nodataset")
    /\ UNCHANGED <<submits, exported, cfgVars, normVars, subVars, sinkVars, uniVars, fetchVars>>

\* get_dataset_items is called: items = [], offset = 0
AfterWaitFetch ==
    /\ pc = "decide"
    /\ FetchAllowed
    /\ \E d \in Datasets(MaxItems) : ds' = d
    /\ offset' = 0
    /\ items' = <<>>
    /\ pageReqs' = 0
    /\ pc' = "fetch"
    /\ UNCHANGED <<idx, all_results, outcome, yielded, submits, exported, raised>>
    /\ UNCHANGED <<cfgVars, normVars, subVars, sinkVars, uniVars, jobVars>>

after_wait == AfterWaitNoFetch \/ AfterWaitNoDataset \/ AfterWaitFetch

\* get_dataset_items returned `got`: normalise and hand the records to main
FetchReturn(got) ==
    /\ items' = got
    /\ ReturnToMain(process_results(got, idx), "ok")

ShortPage_OffByOne(batch) == Len(batch) <= limit

\* get_dataset_items: len(batch) < limit ends the loop
ShortPage(batch) == Len(batch) < limit

\* X and Telegram: one page request of the loop of get_dataset_items
FetchPage ==
    /\ pc = "fetch"
    /\ script # "linkedin"
    /\ pageReqs' = pageReqs + 1
    /\ LET batch == Page(ds, offset, limit)
       IN  IF batch = <<>>
           THEN FetchReturn(items) /\ UNCHANGED offset
           ELSE IF ShortPage(batch)
           THEN FetchReturn(items \o batch) /\ UNCHANGED offset
           ELSE /\ items' = items \o batch
                /\ offset' = offset + limit
                /\ UNCHANGED <<pc, idx, all_results, outcome, yielded, raised, jobVars>>
    /\ UNCHANGED <<ds, submits, exported, cfgVars, normVars, subVars, sinkVars, uniVars>>

\* LinkedIn: one request without offset or limit; the list when the answer
\* is 200, [] for another 2xx answer
FetchAll ==
    /\ pc = "fetch"
    /\ script = "linkedin"
    /\ pageReqs' = pageReqs + 1
    /\ \E code \in {200, 204} :
        FetchReturn(IF code = 200 THEN ds ELSE <<>>)
    /\ UNCHANGED <<ds, offset, submits, exported, cfgVars, normVars, subVars, sinkVars, uniVars>>

\* a dataset request answered non-2xx
FetchHttpError ==
    /\ pc = "fetch"
    /\ pageReqs' = pageReqs + 1
    /\ Raise("fetch")
    /\ UNCHANGED <<ds, offset, items, submits, exported, cfgVars, normVars, subVars, sinkVars, uniVars, jobVars>>

get_dataset_items == FetchPage \/ FetchAll \/ FetchHttpError

\* save_results: nothing is written for an empty list
save_results ==
    /\ pc = "save"
    /\ exported' = (all_results # <<>>)
    /\ export_rows' = IF all_results # <<>> THEN all_results ELSE export_rows
    /\ pc' = "done"
    /\ UNCHANGED <<idx, all_results, outcome, yielded, submits, raised>>
    /\ UNCHANGED <<cfgVars, normVars, subVars, uniVars, jobVars, fetchVars>>

\* exit status of the process: main returning ends it with 0, sys.exit(1) and
\* an uncaught exception with 1; -1 while main is running
ExitStatus ==
    IF pc = "done" THEN 0
    ELSE IF pc \in {"exited", "crashed"} THEN 1
    ELSE -1

----------------------------------------------------------------------------
(* The batch specification *)

\* no request is being served, nothing has been written
InitSubIdle ==
    /\ sub_script = "x"
    /\ actor = "ppr"
    /\ nh = 0
    /\ ns = 0
    /\ nu = 0
    /\ max_posts = 0
    /\ days = 0
    /\ posts_from = 0
    /\ posts_to = 0
    /\ spc = "idle"
    /\ si = 1
    /\ jobs = <<>>

\* no normaliser is running
\* no target is being normalised
InitTargetIdle ==
    /\ target_in = <<>>
    /\ target_shown = <<>>
    /\ target_sent = <<>>
    /\ tpc = "idle"

InitNormIdle ==
    /\ norm = "x"
    /\ source_handle = ""
    /\ raw_items = <<>>
    /\ ni = 1
    /\ processed = <<>>
    /\ origin = <<>>
    /\ npass = 1
    /\ first_pass = <<>>
    /\ media_in = <<>>
    /\ media_out = <<>>
    /\ InitTargetIdle

\* unified_scraper.py is not running
InitUnifiedIdle ==
    /\ backend = "auto"
    /\ env_token = "<unset>"
    /\ env_api_id = "<unset>"
    /\ env_api_hash = "<unset>"
    /\ nchannels = 0
    /\ filter_keywords = <<>>
    /\ filter_min_views = 0
    /\ date_from = 0
    /\ date_to = 0
    /\ config_limit = MaxLimit
    /\ upc = "idle"
    /\ selected = "none"
    /\ uraised = "none"
    /\ connects = 0
    /\ started = 0
    /\ disconnects = 0
    /\ actor_calls = 0
    /\ iterated = <<>>
    /\ all_messages = <<>>
    /\ messages = <<>>
    /\ files = FALSE

InitJob ==
    /\ run_id = 0
    /\ remote = "READY"
    /\ now = 0
    /\ status = "NONE"
    /\ timedOut = FALSE
    /\ statusReqs = 0
    /\ observed = "NONE"
    /\ lateReqs = 0

Init ==
    /\ script \in Scripts
    /\ ntargets \in 1..MaxTargets
    /\ script = "telegram" => ntargets = 1
    /\ wait_timeout \in WaitTimeouts
    /\ limit = PageLimit
    /\ pc = "submit"
    /\ idx = 1
    /\ all_results = <<>>
    /\ outcome = [t \in 1..ntargets |-> "pending"]
    /\ yielded = [t \in 1..ntargets |-> <<>>]
    /\ submits = [t \in 1..ntargets |-> 0]
    /\ exported = FALSE
    /\ raised = "none"
    /\ InitJob
    /\ ds = <<>>
    /\ offset = 0
    /\ items = <<>>
    /\ pageReqs = 0
    /\ InitUnifiedIdle
    /\ InitNormIdle
    /\ InitSubIdle
    /\ export_rows = <<>>

Next ==
    \/ start_actor_run
    \/ wait_for_run
    \/ after_wait
    \/ get_dataset_items
    \/ save_results

Spec == Init /\ [][Next]_vars

\* the batch specification with a wait_for_run that goes on: a status request
\* is answered or raises, and time.sleep returns
SpecPolling == Init /\ [][Next]_vars /\ WF_vars(wait_for_run)

----------------------------------------------------------------------------
(* The pagination specification: get_dataset_items on every dataset of up  *)
(* to MaxDataset items with every page size up to MaxPage.                 *)

InitFetch ==
    /\ script \in Scripts
    /\ ntargets = 1
    /\ wait_timeout = 0
    /\ limit \in 1..MaxPage
    /\ pc = "fetch"
    /\ idx = 1
    /\ all_results = <<>>
    /\ outcome = [t \in 1..ntargets |-> "pending"]
    /\ yielded = [t \in 1..ntargets |-> <<>>]
    /\ submits = [t \in 1..ntargets |-> 1]
    /\ exported = FALSE
    /\ raised = "none"
    /\ run_id = 1
    /\ remote = "SUCCEEDED"
    /\ now = 0
    /\ status = "SUCCEEDED"
    /\ timedOut = FALSE
    /\ statusReqs = 1
    /\ observed = "SUCCEEDED"
    /\ lateReqs = 0
    /\ ds \in Datasets(MaxDataset)
    /\ offset = 0
    /\ items = <<>>
    /\ pageReqs = 0
    /\ InitUnifiedIdle
    /\ InitNormIdle
    /\ InitSubIdle
    /\ export_rows = <<>>

NextFetch == get_dataset_items

SpecFetch == InitFetch /\ [][NextFetch]_vars

----------------------------------------------------------------------------
(* unified_scraper.py *)

Backends == {"auto", "apify", "telethon"}
\* what os.getenv answers: None ("<unset>"), an empty string, a value
TokenValues == {"<unset>", "", "tok"}
ApiIdValues == {"<unset>", "", "12345", "abc"}
ApiHashValues == {"<unset>", "", "hash"}

\* bool(v) of an environment value
Truthy(v) == v \notin {"<unset>", ""}
\* int(v) succeeds
IsInt(v) == v = "12345"

\* a field that may hold None
Some(x) == [null |-> FALSE, v |-> x]
NoText == [null |-> TRUE, v |-> <<>>]
NoViews == [null |-> TRUE, v |-> 0]

ViewsOrZero_PassesNull(n) == IF n.null THEN filter_min_views ELSE n.v

\* text or '' / views or 0
TextOrEmpty(t) == IF t.null THEN <<>> ELSE t.v
ViewsOrZero(n) == IF n.null THEN 0 ELSE n.v

LowerChar(c) == IF c = "A" THEN "a" ELSE IF c = "B" THEN "b" ELSE c
Lower_Identity(str) == str
\* str.lower()
Lower(str) == [i \in DOMAIN str |-> LowerChar(str[i])]
\* kw in str
IsSubstring(kw, str) ==
    \E i \in 0..(Len(str) - Len(kw)) : SubSeq(str, i + 1, i + Len(kw)) = kw

\* the messages a channel (Telethon) or a dataset (Apify) may hold
Msg(t, n, d) == [text |-> t, views |-> n, date |-> d]
Feeds ==
    { <<>>,
      << Msg(Some(<<"A", "b">>), Some(5), 2) >>,
      << Msg(NoText, NoViews, 3), Msg(Some(<<"b">>), Some(0), 1) >> }

KeywordLists == { <<>>, << <<"a">> >>, << <<"B">>, <<"a", "b">> >> }
MinViews == {0, 5}
Dates == {0, 2}
Limits == 1..MaxLimit

TelethonIsAvailable_Either(api_id, api_hash) == Truthy(api_id) \/ Truthy(api_hash)

\* TelethonScraper.is_available
TelethonIsAvailable(api_id, api_hash) == Truthy(api_id) /\ Truthy(api_hash)

\* ApifyScraper.is_available
ApifyIsAvailable(token) == Truthy(token)

\* UnifiedScraper.get_available_backends
get_available_backends ==
    (IF TelethonIsAvailable(env_api_id, env_api_hash) THEN <<"telethon">> ELSE <<>>)
    \o (IF ApifyIsAvailable(env_token) THEN <<"apify">> ELSE <<>>)

select_backend_FallsBack(b, token, api_id, api_hash) ==
    IF ApifyIsAvailable(token) /\ b # "telethon" THEN "apify"
    ELSE IF b = "apify" THEN "ValueError"
    ELSE "telethon"

\* UnifiedScraper.select_backend: the backend, or "ValueError" when it raises
select_backend(b, token, api_id, api_hash) ==
    IF b = "telethon"
    THEN IF ~TelethonIsAvailable(api_id, api_hash) THEN "ValueError" ELSE "telethon"
    ELSE IF b = "apify"
    THEN IF ~ApifyIsAvailable(token) THEN "ValueError" ELSE "apify"
    ELSE IF ApifyIsAvailable(token) THEN "apify"
    ELSE IF TelethonIsAvailable(api_id, api_hash) THEN "telethon"
    ELSE "ValueError"

apply_filters_Dedup(msgs, keywords, min_views) ==
    LET Keep(m) ==
            /\ keywords # <<>> =>
                  \E i \in DOMAIN keywords :
                      IsSubstring(Lower(keywords[i]), Lower(TextOrEmpty(m.text)))
            /\ min_views > 0 => ViewsOrZero(m.views) >= min_views
        First(k) == \A j \in 1..(k - 1) : msgs[j] # msgs[k]
        out[k \in 0..Len(msgs)] ==
            IF k = 0 THEN <<>>
            ELSE IF Keep(msgs[k]) /\ First(k) THEN Append(out[k - 1], msgs[k])
            ELSE out[k - 1]
    IN  out[Len(msgs)]

\* UnifiedScraper._apply_filters
apply_filters(msgs, keywords, min_views) ==
    LET KwKeep(m) ==
            \E i \in DOMAIN keywords :
                IsSubstring(Lower(keywords[i]), Lower(TextOrEmpty(m.text)))
        byKw == IF keywords # <<>> THEN SelectSeq(msgs, KwKeep) ELSE msgs
        ViewKeep(m) == ViewsOrZero(m.views) >= min_views
    IN  IF min_views > 0 THEN SelectSeq(byKw, ViewKeep) ELSE byKw

\* TelethonScraper.scrape_channel: the records of channel c, whose
\* iter_messages(channel, limit=limit) yields at most the first limit
\* messages of feed, of which those outside the window are skipped
scrape_channel(c, feed) ==
    LET InWindow(m) ==
            /\ ~(date_from # 0 /\ m.date < date_from)
            /\ ~(date_to # 0 /\ m.date > date_to)
        rec(i) == [id |-> i, channel |-> c, date |-> feed[i].date,
                   text |-> Some(TextOrEmpty(feed[i].text)),
                   views |-> Some(ViewsOrZero(feed[i].views))]
    IN  SelectSeq([i \in 1..Min(Len(feed), config_limit) |-> rec(i)], InWindow)

\* ApifyScraper.scrape_channels: the records of the dataset items
scrape_channels(feed) ==
    [i \in 1..Len(feed) |->
        [id |-> i, channel |-> 1, date |-> feed[i].date,
         text |-> feed[i].text, views |-> feed[i].views]]

\* main: no backend is available, main prints the hint and returns
MainNoBackend ==
    /\ upc = "main"
    /\ get_available_backends = <<>>
    /\ upc' = "returned"
    /\ UNCHANGED <<selected, uraised, connects, started, disconnects, actor_calls,
                   iterated, all_messages, messages, files>>
    /\ UNCHANGED <<uniCfgVars, normVars, subVars, sinkVars, cfgVars, batchVars, jobVars, fetchVars>>

\* main calls scrape, whose first statement is select_backend; its
\* ValueError leaves scrape and main
MainSelectBackend ==
    /\ upc = "main"
    /\ get_available_backends # <<>>
    /\ LET b == select_backend(backend, env_token, env_api_id, env_api_hash)
       IN  IF b = "ValueError"
           THEN /\ upc' = "crashed"
                /\ uraised' = "select"
                /\ UNCHANGED selected
           ELSE /\ upc' = "connect"
                /\ selected' = b
                /\ UNCHANGED uraised
    /\ UNCHANGED <<connects, started, disconnects, actor_calls,
                   iterated, all_messages, messages, files>>
    /\ UNCHANGED <<uniCfgVars, normVars, subVars, sinkVars, cfgVars, batchVars, jobVars, fetchVars>>

\* backend == 'apify': connect, then scrape_channels: one actor call for all
\* channels, blocking until the run ended; the items of its dataset
ApifyScrapeChannels ==
    /\ upc = "connect"
    /\ selected = "apify"
    /\ connects' = connects + 1
    /\ actor_calls' = actor_calls + 1
    /\ \/ \E feed \in Feeds :
            /\ all_messages' = scrape_channels(feed)
            /\ upc' = "filter"
            /\ UNCHANGED uraised
       \/ \* the actor call or the dataset iteration raises
          /\ upc' = "crashed"
          /\ uraised' = "actor"
          /\ UNCHANGED all_messages
    /\ UNCHANGED <<selected, started, disconnects, iterated, messages, files>>
    /\ UNCHANGED <<uniCfgVars, normVars, subVars, sinkVars, cfgVars, batchVars, jobVars, fetchVars>>

\* TelethonScraper.connect: int(api_id), the client, client.start(); the
\* call is made outside the try of scrape
TelethonConnect ==
    /\ upc = "connect"
    /\ selected = "telethon"
    /\ IF ~IsInt(env_api_id)
       THEN /\ upc' = "crashed"
            /\ uraised' = "connect"
            /\ UNCHANGED <<connects, started>>
       ELSE /\ connects' = connects + 1
            /\ started' = started + 1
            /\ \/ upc' = "iterate" /\ UNCHANGED uraised
               \/ upc' = "crashed" /\ uraised' = "start"
    /\ UNCHANGED <<selected, disconnects, actor_calls, iterated, all_messages,
                   messages, files>>
    /\ UNCHANGED <<uniCfgVars, normVars, subVars, sinkVars, cfgVars, batchVars, jobVars, fetchVars>>

NextChannel_Reversed(done) == nchannels - Len(done)

\* for channel in config.channels: the channel of the next turn, after the
\* turns of the channels `done`
NextChannel(done) == Len(done) + 1

\* one turn of the loop over config.channels: scrape_channel and extend; an
\* exception of iter_messages runs the finally clause and leaves main
TelethonScrapeChannel ==
    /\ upc = "iterate"
    /\ Len(iterated) < nchannels
    /\ LET c == NextChannel(iterated)
       IN  /\ iterated' = Append(iterated, c)
           /\ \/ \E feed \in Feeds :
                   /\ all_messages' = all_messages \o scrape_channel(c, feed)
                   /\ UNCHANGED <<upc, uraised, disconnects>>
              \/ /\ disconnects' = disconnects + 1
                 /\ upc' = "crashed"
                 /\ uraised' = "iterate"
                 /\ UNCHANGED all_messages
    /\ UNCHANGED <<selected, connects, started, actor_calls, messages, files>>
    /\ UNCHANGED <<uniCfgVars, normVars, subVars, sinkVars, cfgVars, batchVars, jobVars, fetchVars>>

\* the loop is over: the finally clause disconnects
TelethonDisconnect ==
    /\ upc = "iterate"
    /\ Len(iterated) = nchannels
    /\ disconnects' = disconnects + 1
    /\ upc' = "filter"
    /\ UNCHANGED <<selected, uraised, connects, started, actor_calls, iterated,
                   all_messages, messages, files>>
    /\ UNCHANGED <<uniCfgVars, normVars, subVars, sinkVars, cfgVars, batchVars, jobVars, fetchVars>>

ScrapeReturn_Unfiltered ==
    /\ upc = "filter"
    /\ messages' = all_messages
    /\ upc' = "save"
    /\ UNCHANGED <<selected, uraised, connects, started, disconnects, actor_calls,
                   iterated, all_messages, files>>
    /\ UNCHANGED <<uniCfgVars, normVars, subVars, sinkVars, cfgVars, batchVars, jobVars, fetchVars>>

\* scrape returns _apply_filters(all_messages, config)
ScrapeReturn ==
    /\ upc = "filter"
    /\ messages' = apply_filters(all_messages, filter_keywords, filter_min_views)
    /\ upc' = "save"
    /\ UNCHANGED <<selected, uraised, connects, started, disconnects, actor_calls,
                   iterated, all_messages, files>>
    /\ UNCHANGED <<uniCfgVars, normVars, subVars, sinkVars, cfgVars, batchVars, jobVars, fetchVars>>

\* UnifiedScraper.save_results: nothing is written for an empty list
unified_save_results ==
    /\ upc = "save"
    /\ files' = (messages # <<>>)
    /\ upc' = "done"
    /\ UNCHANGED <<selected, uraised, connects, started, disconnects, actor_calls,
                   iterated, all_messages, messages>>
    /\ UNCHANGED <<uniCfgVars, normVars, subVars, sinkVars, cfgVars, batchVars, jobVars, fetchVars>>

\* the Apify REST scripts are not running
InitBatchIdle ==
    /\ script = "x"
    /\ ntargets = 1
    /\ wait_timeout = 0
    /\ limit = PageLimit
    /\ pc = "idle"
    /\ idx = 1
    /\ all_results = <<>>
    /\ outcome = [t \in 1..ntargets |-> "pending"]
    /\ yielded = [t \in 1..ntargets |-> <<>>]
    /\ submits = [t \in 1..ntargets |-> 0]
    /\ exported = FALSE
    /\ raised = "none"
    /\ InitJob
    /\ ds = <<>>
    /\ offset = 0
    /\ items = <<>>
    /\ pageReqs = 0

InitUnified ==
    /\ backend \in Backends
    /\ env_token \in TokenValues
    /\ env_api_id \in ApiIdValues
    /\ env_api_hash \in ApiHashValues
    /\ nchannels \in 1..MaxChannels
    /\ filter_keywords \in KeywordLists
    /\ filter_min_views \in MinViews
    /\ date_from \in Dates
    /\ date_to \in Dates
    /\ config_limit \in Limits
    /\ upc = "main"
    /\ selected = "none"
    /\ uraised = "none"
    /\ connects = 0
    /\ started = 0
    /\ disconnects = 0
    /\ actor_calls = 0
    /\ iterated = <<>>
    /\ all_messages = <<>>
    /\ messages = <<>>
    /\ files = FALSE
    /\ InitBatchIdle
    /\ InitNormIdle
    /\ InitSubIdle
    /\ export_rows = <<>>

NextUnified ==
    \/ MainNoBackend
    \/ MainSelectBackend
    \/ ApifyScrapeChannels
    \/ TelethonConnect
    \/ TelethonScrapeChannel
    \/ TelethonDisconnect
    \/ ScrapeReturn
    \/ unified_save_results

SpecUnified == InitUnified /\ [][NextUnified]_vars

\* The aggregation specification: the runs of the batch scripts and the runs
\* of the unified scraper, each with its own accumulator.
InitAggregate == Init \/ InitUnified
NextAggregate == Next \/ NextUnified
SpecAggregate == InitAggregate /\ [][NextAggregate]_vars

----------------------------------------------------------------------------
(* The filter specification: _apply_filters on every list of up to MaxMsgs  *)
(* records, with every keyword list and view threshold below.              *)

\* records as scrape_channels builds them; the dataset may hold the same
\* message twice, and its text and views may be null
FilterRecords ==
    { [id |-> 1, channel |-> 1, date |-> 1, text |-> Some(<<"A", "b">>), views |-> Some(5)],
      [id |-> 2, channel |-> 1, date |-> 1, text |-> NoText, views |-> NoViews],
      [id |-> 3, channel |-> 1, date |-> 2, text |-> Some(<<"b">>), views |-> Some(0)],
      [id |-> 4, channel |-> 1, date |-> 2, text |-> Some(<<>>), views |-> Some(7)],
      [id |-> 5, channel |-> 1, date |-> 3, text |-> NoText, views |-> Some(5)],
      [id |-> 6, channel |-> 1, date |-> 3, text |-> Some(<<"a">>), views |-> NoViews] }

SeqsUpTo(S, n) == UNION { [1..k -> S] : k \in 0..n }

\* --keywords: none, one keyword, two keywords, the empty keyword
FilterKeywordLists ==
    { <<>>, << <<"a">> >>, << <<"B">>, <<"a", "b">> >>, << <<>> >> }
\* --min-views
FilterMinViews == {-1, 0, 5}

InitFilter ==
    /\ backend = "apify"
    /\ env_token = "tok"
    /\ env_api_id = "<unset>"
    /\ env_api_hash = "<unset>"
    /\ nchannels = 1
    /\ filter_keywords \in FilterKeywordLists
    /\ filter_min_views \in FilterMinViews
    /\ date_from = 0
    /\ date_to = 0
    /\ config_limit = MaxLimit
    /\ upc = "filter"
    /\ selected = "apify"
    /\ uraised = "none"
    /\ connects = 1
    /\ started = 0
    /\ disconnects = 0
    /\ actor_calls = 1
    /\ iterated = <<>>
    /\ all_messages \in SeqsUpTo(FilterRecords, MaxMsgs)
    /\ messages = <<>>
    /\ files = FALSE
    /\ InitBatchIdle
    /\ InitNormIdle
    /\ InitSubIdle
    /\ export_rows = <<>>

NextFilter ==
    \/ ScrapeReturn
    \/ unified_save_results

SpecFilter == InitFilter /\ [][NextFilter]_vars

----------------------------------------------------------------------------
(* Normalisation: process_results (X, Apify-Telegram), process_post         *)
(* (LinkedIn) and the result mapping of ApifyScraper.scrape_channels.      *)
(* A raw record maps each key to a value; values are tokens: "<absent>"    *)
(* for a key the record does not hold, "<None>" for null, "<0>", "<7>",    *)
(* "<9>" for numbers, "<True>" for true, and "", "a", "b", ... for strings.*)

Absent == "<absent>"
None == "<None>"
Keys ==
    { "noResults", "demo",
      "tweet_id", "id", "id_str", "messageId", "postId", "post_id",
      "author.screen_name", "author.userName", "twitterHandle", "handle",
      "channel", "channelUsername", "channelName", "source", "profileName",
      "date", "timestamp", "datetime", "postDate", "created_at", "createdAt",
      "text", "full_text", "tweetText", "content", "message", "postText",
      "views", "viewCount", "view_count",
      "url", "postUrl", "link", "post_url",
      "stats.total_reactions", "urn.activity_urn" }

\* the raw record holding the keys of the record `fields`, and no other
Item(fields) == [k \in Keys |-> IF k \in DOMAIN fields THEN fields[k] ELSE Absent]
EmptyItem == [k \in Keys |-> Absent]

\* item.get(k) and item.get(k, d)
Get(item, k) == IF item[k] = Absent THEN None ELSE item[k]
GetD(item, k, d) == IF item[k] = Absent THEN d ELSE item[k]
\* the truth value Python gives a value
Falsy(v) == v \in {None, "<0>", ""}

Or_FirstPresent(a, b) == IF a = None THEN b ELSE a

\* a or b
Or(a, b) == IF Falsy(a) THEN b ELSE a

\* the characters of a text
Chars(v) ==
    CASE v = "" -> <<>>
      [] v = "a" -> <<"a">>
      [] v = "b" -> <<"b">>
      [] v = "RT" -> <<"R", "T">>
      [] v = "RT @a" -> <<"R", "T", " ", "@", "a">>
      [] v = "RT @b" -> <<"R", "T", " ", "@", "b">>
      [] v = "aRT @" -> <<"a", "R", "T", " ", "@">>
      [] v = "rt @a" -> <<"r", "t", " ", "@", "a">>
\* 'RT @'
RTMarker == <<"R", "T", " ", "@">>

StartsWith_Contains(str, prefix) == IsSubstring(prefix, str)

\* str.startswith(prefix)
StartsWith(str, prefix) ==
    Len(str) >= Len(prefix) /\ SubSeq(str, 1, Len(prefix)) = prefix

\* the record process_results of apify_x_scraper.py builds for an item; the
\* count fields likes, retweets, ... are built like views
x_record(item, handle_arg) ==
    LET tid == Or(Get(item, "tweet_id"), Or(Get(item, "id"), Or(Get(item, "id_str"), "")))
        handle == Or(Get(item, "author.screen_name"), Or(Get(item, "author.userName"),
                  Or(Get(item, "twitterHandle"), Or(Get(item, "handle"),
                  Or(handle_arg, "")))))
        text == Or(Get(item, "text"), Or(Get(item, "full_text"),
                Or(Get(item, "tweetText"), Or(Get(item, "content"), ""))))
    IN  [tweet_id |-> tid,
         handle |-> handle,
         date |-> Or(Get(item, "created_at"), Or(Get(item, "createdAt"),
                  Or(Get(item, "date"), Or(Get(item, "timestamp"), "")))),
         text |-> text,
         is_retweet |-> IF Falsy(text) THEN FALSE ELSE StartsWith(Chars(text), RTMarker),
         url |-> IF ~Falsy(tid) /\ ~Falsy(handle)
                 THEN <<"https://x.com/", handle, "/status/", tid>> ELSE <<>>,
         views |-> Or(Get(item, "views"), Or(Get(item, "viewCount"), "<0>")),
         raw_json |-> item]

telegram_record_Inherits(item) ==
    [id |-> Or(Get(item, "id"), Or(Get(item, "messageId"),
            Or(Get(item, "postId"), Get(item, "post_id")))),
     channel |-> Or(Get(item, "channel"), Or(Get(item, "channelUsername"),
                 Or(Get(item, "channelName"), Or(Get(item, "source"),
                 Get(item, "profileName"))))),
     date |-> Or(Get(item, "date"), Or(Get(item, "timestamp"),
              Or(Get(item, "datetime"), Or(Get(item, "postDate"),
              Get(item, "created_at"))))),
     text |-> Or(Get(item, "text"), Or(Get(item, "message"),
              Or(Get(item, "content"), Or(Get(item, "postText"), "")))),
     views |-> Or(Get(item, "views"), Or(Get(item, "viewCount"),
               Or(Get(item, "view_count"),
               IF processed = <<>> THEN "<0>" ELSE processed[Len(processed)].views))),
     url |-> Or(Get(item, "url"), Or(Get(item, "postUrl"),
             Or(Get(item, "link"), Get(item, "post_url")))),
     raw_json |-> item]

\* the record process_results of apify_telegram_scraper.py builds for an
\* item; forwards and replies are built like views
telegram_record(item) ==
    [id |-> Or(Get(item, "id"), Or(Get(item, "messageId"),
            Or(Get(item, "postId"), Get(item, "post_id")))),
     channel |-> Or(Get(item, "channel"), Or(Get(item, "channelUsername"),
                 Or(Get(item, "channelName"), Or(Get(item, "source"),
                 Get(item, "profileName"))))),
     date |-> Or(Get(item, "date"), Or(Get(item, "timestamp"),
              Or(Get(item, "datetime"), Or(Get(item, "postDate"),
              Get(item, "created_at"))))),
     text |-> Or(Get(item, "text"), Or(Get(item, "message"),
              Or(Get(item, "content"), Or(Get(item, "postText"), "")))),
     views |-> Or(Get(item, "views"), Or(Get(item, "viewCount"),
               Or(Get(item, "view_count"), "<0>"))),
     url |-> Or(Get(item, "url"), Or(Get(item, "postUrl"),
             Or(Get(item, "link"), Get(item, "post_url")))),
     raw_json |-> item]

\* the record ApifyScraper.scrape_channels builds for an item; forwards and
\* replies are built like views
apify_message(item) ==
    [id |-> Or(Get(item, "id"), Get(item, "messageId")),
     channel |-> Or(Get(item, "channel"), Get(item, "channelUsername")),
     date |-> Or(Get(item, "date"), Get(item, "timestamp")),
     text |-> Or(Get(item, "text"), GetD(item, "message", "")),
     views |-> GetD(item, "views", "<0>"),
     url |-> Get(item, "url")]

\* process_post of apify_linkedin_scraper.py; the fields read from author,
\* posted_at, stats, media and urn are built like total_reactions and
\* activity_id (the texts of the model are shorter than the 500 characters
\* 'text' is cut to)
process_post(post) ==
    [activity_id |-> GetD(post, "urn.activity_urn", ""),
     text |-> Or(Get(post, "text"), ""),
     full_text |-> GetD(post, "text", ""),
     post_url |-> GetD(post, "url", ""),
     total_reactions |-> GetD(post, "stats.total_reactions", "<0>")]

\* an element of a media structure: an object holding media_url_https and
\* url (tokens, Absent when the object lacks the key), or the scalar `value`
MediaObject(https, url) ==
    [isdict |-> TRUE, media_url_https |-> https, url |-> url, value |-> Absent]
MediaScalar(v) ==
    [isdict |-> FALSE, media_url_https |-> Absent, url |-> Absent, value |-> v]
\* a value of a media key: no value, one element, or a list of elements
NoValue == [kind |-> "absent", entries |-> <<>>]
Single(e) == [kind |-> "single", entries |-> <<e>>]
List(es) == [kind |-> "list", entries |-> es]
\* the media of an item. X: photo, video, animated_gif are the values of
\* item['media'] when it is a mapping of them, and media is item['media']
\* when it is a list or one element. Telegram: the values of the item's keys
\* mediaUrl, imageUrl, media_urls, photo, images.
Media(fields) ==
    [k \in {"media", "photo", "video", "animated_gif",
            "mediaUrl", "imageUrl", "media_urls", "images"} |->
        IF k \in DOMAIN fields THEN fields[k] ELSE NoValue]
NoMedia == Media(<<>>)

\* m.get('media_url_https') or m.get('url') of the objects of a list, the
\* truthy ones, in order; elements that are not objects are passed over
ObjectUrls(entries) ==
    LET U(m) == Or(IF m.media_url_https = Absent THEN None ELSE m.media_url_https,
                   IF m.url = Absent THEN None ELSE m.url)
        IsKept(m) == m.isdict /\ ~Falsy(U(m))
        kept == SelectSeq(entries, IsKept)
    IN  [i \in 1..Len(kept) |-> U(kept[i])]

\* the "# Media" block of process_results of apify_x_scraper.py: media is a
\* mapping (its photo, video, animated_gif lists), a list, or anything else
x_media_urls(media) ==
    LET OfType(v) == IF v.kind = "list" THEN ObjectUrls(v.entries) ELSE <<>>
    IN  CASE media["media"].kind = "absent" ->
                OfType(media["photo"]) \o OfType(media["video"])
                    \o OfType(media["animated_gif"])
          [] media["media"].kind = "list" -> ObjectUrls(media["media"].entries)
          [] OTHER -> <<>>

\* str(v) of an element: the string itself, the repr of an object
Str(e) == IF e.isdict THEN "{'url': '" \o e.url \o "'}" ELSE e.value

\* "# Extract media URLs" of process_results of apify_telegram_scraper.py
telegram_media_urls(media) ==
    LET Truthy_(v) ==
            \/ v.kind = "list" /\ v.entries # <<>>
            \/ v.kind = "single" /\ (v.entries[1].isdict \/ v.entries[1].value # "")
        OfKey(v) == IF Truthy_(v) THEN [i \in 1..Len(v.entries) |-> Str(v.entries[i])]
                    ELSE <<>>
    IN  OfKey(media["mediaUrl"]) \o OfKey(media["imageUrl"]) \o OfKey(media["media_urls"])
            \o OfKey(media["photo"]) \o OfKey(media["images"])

\* the media URLs the running normaliser collects; the unified mapping and
\* process_post build no such list
media_urls(media) ==
    CASE norm = "x" -> x_media_urls(media)
      [] norm = "telegram" -> telegram_media_urls(media)
      [] OTHER -> <<>>

Skipped_AllScripts(item) ==
    ~Falsy(Get(item, "noResults")) \/ ~Falsy(Get(item, "demo"))

\* process_results of X: if item.get('noResults') or item.get('demo'): continue
Skipped(item) ==
    norm = "x" /\ (~Falsy(Get(item, "noResults")) \/ ~Falsy(Get(item, "demo")))

\* the record the running normaliser builds for an item
normalize(item) ==
    CASE norm = "x" -> x_record(item, source_handle)
      [] norm = "telegram" -> telegram_record(item)
      [] norm = "unified" -> apify_message(item)
      [] norm = "linkedin" -> process_post(item)

Normalisers == {"x", "telegram", "unified", "linkedin"}

\* raw records a dataset may hold
RawItems ==
    { EmptyItem,
      Item([id |-> None, messageId |-> "<9>", views |-> "<0>", viewCount |-> "<9>",
            text |-> "", message |-> "b", full_text |-> "b"]),
      Item([tweet_id |-> "<5>", id |-> "<7>", messageId |-> "<9>", handle |-> "h",
            channel |-> "c", date |-> "d", text |-> "a", message |-> "b",
            full_text |-> "b", views |-> "<7>", viewCount |-> "<9>",
            view_count |-> "<9>", url |-> "u", postUrl |-> "v"]),
      Item([id |-> "<7>", views |-> "<7>", text |-> "a"]),
      Item([demo |-> "<True>", id |-> "<7>", text |-> "a"]) }

\* one turn of the loop over items: the record of the item is appended,
\* unless the X normaliser skips the item
NormalizeItem ==
    /\ ni <= Len(raw_items)
    /\ IF Skipped(raw_items[ni])
       THEN UNCHANGED <<processed, origin, media_out>>
       ELSE /\ processed' = Append(processed, normalize(raw_items[ni]))
            /\ origin' = Append(origin, ni)
            /\ media_out' = Append(media_out, media_urls(media_in[ni]))
    /\ ni' = ni + 1
    /\ UNCHANGED <<norm, source_handle, raw_items, npass, first_pass, media_in>>
    /\ UNCHANGED <<target_in, target_shown, target_sent, tpc>>
    /\ UNCHANGED <<cfgVars, batchVars, jobVars, fetchVars, uniVars, subVars, sinkVars>>

\* the normaliser returned; it is applied to the same items once more
NormalizeAgain ==
    /\ ni > Len(raw_items)
    /\ npass = 1
    /\ first_pass' = processed
    /\ npass' = 2
    /\ ni' = 1
    /\ processed' = <<>>
    /\ origin' = <<>>
    /\ media_out' = <<>>
    /\ UNCHANGED <<norm, source_handle, raw_items, media_in>>
    /\ UNCHANGED <<target_in, target_shown, target_sent, tpc>>
    /\ UNCHANGED <<cfgVars, batchVars, jobVars, fetchVars, uniVars, subVars, sinkVars>>

InitNormalize ==
    /\ norm \in Normalisers
    /\ source_handle \in {"", "src"}
    /\ norm # "x" => source_handle = ""
    /\ raw_items \in SeqsUpTo(RawItems, MaxRaw)
    /\ media_in = [i \in 1..Len(raw_items) |-> NoMedia]
    /\ media_out = <<>>
    /\ InitTargetIdle
    /\ ni = 1
    /\ processed = <<>>
    /\ origin = <<>>
    /\ npass = 1
    /\ first_pass = <<>>
    /\ InitBatchIdle
    /\ InitUnifiedIdle
    /\ InitSubIdle
    /\ export_rows = <<>>

NextNormalize ==
    \/ NormalizeItem
    \/ NormalizeAgain

SpecNormalize == InitNormalize /\ [][NextNormalize]_vars

\* The record specification: the normalisers on one raw record, drawn from
\* the combinations of the keys the derived fields (url, is_retweet,
\* media_urls) are built from.
RecordItems ==
    { [EmptyItem EXCEPT !["id"] = i, !["handle"] = h, !["channel"] = c,
                        !["url"] = u, !["postUrl"] = pu,
                        !["text"] = t, !["full_text"] = ft] :
        i \in {Absent, "<7>"}, h \in {Absent, "h"}, c \in {Absent, "c"},
        u \in {Absent, "", "u"}, pu \in {Absent, "v"},
        t \in {Absent, "", "a", "RT", "RT @a", "aRT @"},
        ft \in {Absent, "RT @b"} }

\* media an X item may hold
XMedias ==
    { NoMedia,
      Media([photo |-> List(<<MediaObject("u1", Absent), MediaObject(Absent, "u2")>>),
             video |-> List(<<MediaObject("u1", "u3")>>)]),
      Media([media |-> List(<<MediaObject(Absent, "u1"), MediaScalar("u2"),
                              MediaObject(Absent, "u1")>>)]),
      Media([media |-> Single(MediaScalar("u1"))]),
      Media([media |-> Single(MediaObject(Absent, "u1"))]),
      Media([photo |-> Single(MediaObject("u1", Absent))]),
      Media([photo |-> List(<<MediaObject("", "u2"), MediaObject(Absent, Absent)>>)]) }

\* media a Telegram item may hold
TelegramMedias ==
    { NoMedia,
      Media([mediaUrl |-> Single(MediaScalar("u1")),
             images |-> List(<<MediaScalar("u2"), MediaScalar("u1")>>)]),
      Media([media_urls |-> List(<<MediaScalar("u1"), MediaScalar("u1")>>)]),
      Media([imageUrl |-> Single(MediaScalar(""))]),
      Media([photo |-> List(<<MediaObject(Absent, "u1")>>)]) }

MediasOf(n) ==
    CASE n = "x" -> XMedias
      [] n = "telegram" -> TelegramMedias
      [] OTHER -> {NoMedia}

InitRecord ==
    /\ norm \in Normalisers
    /\ source_handle \in {"", "src"}
    /\ norm # "x" => source_handle = ""
    /\ \E item \in RecordItems, media \in MediasOf(norm) :
          /\ (item = Item([id |-> "<7>", text |-> "a"]) \/ media = NoMedia)
          /\ raw_items = <<item>>
          /\ media_in = <<media>>
    /\ media_out = <<>>
    /\ InitTargetIdle
    /\ ni = 1
    /\ processed = <<>>
    /\ origin = <<>>
    /\ npass = 1
    /\ first_pass = <<>>
    /\ InitBatchIdle
    /\ InitUnifiedIdle
    /\ InitSubIdle
    /\ export_rows = <<>>

SpecRecord == InitRecord /\ [][NextNormalize]_vars

----------------------------------------------------------------------------
(* Target normalisation: normalize_handle, normalize_channel and           *)
(* normalize_profile. A target string is a sequence of symbols: "D" stands *)
(* for the host part of a URL prefix (https://x.com, t.me,                 *)
(* linkedin.com/in, ...), so that <<"D", "/">> is a prefix the normaliser  *)
(* looks for; "/", "?", "@" and " " are themselves and "a" is any other    *)
(* character.                                                              *)

Symbols == {"D", "/", "?", "@", " ", "a"}
UrlPrefix == <<"D", "/">>
TargetStrings == SeqsUpTo(Symbols, MaxStr)

RECURSIVE LStrip(_, _)
\* str.lstrip(c)
LStrip(str, c) ==
    IF str # <<>> /\ Head(str) = c THEN LStrip(Tail(str), c) ELSE str
RECURSIVE RStrip(_, _)
\* str.rstrip(c)
RStrip(str, c) ==
    IF str # <<>> /\ str[Len(str)] = c THEN RStrip(SubSeq(str, 1, Len(str) - 1), c)
    ELSE str
\* str.strip()
Strip(str) == RStrip(LStrip(str, " "), " ")
\* str.split(c)[0]
SplitFirst(str, c) ==
    LET at == { i \in 1..Len(str) : str[i] = c }
    IN  IF at = {} THEN str
        ELSE SubSeq(str, 1, (CHOOSE i \in at : \A j \in at : i <= j) - 1)
\* str.split(pat)[-1]
SplitLast(str, pat) ==
    LET at == { i \in 1..(Len(str) - Len(pat) + 1) :
                    SubSeq(str, i, i + Len(pat) - 1) = pat }
    IN  IF at = {} THEN str
        ELSE SubSeq(str, (CHOOSE i \in at : \A j \in at : i >= j) + Len(pat), Len(str))
\* str[len(prefix):].split('/')[0].split('?')[0]
PathHead(str, start) == SplitFirst(SplitFirst(SubSeq(str, start, Len(str)), "/"), "?")

\* if str.startswith('@'): str = str[1:]
StripAt(str) == IF str # <<>> /\ Head(str) = "@" THEN Tail(str) ELSE str

\* normalize_handle of apify_x_scraper.py
normalize_handle(handle) ==
    LET h == Strip(handle)
    IN  StripAt(IF StartsWith(h, UrlPrefix) THEN PathHead(h, Len(UrlPrefix) + 1) ELSE h)

\* normalize_channel of apify_telegram_scraper.py
normalize_channel(channel) ==
    LET c == Strip(channel)
    IN  StripAt(IF IsSubstring(UrlPrefix, c) THEN PathHead(SplitLast(c, UrlPrefix), 1) ELSE c)

\* normalize_profile of apify_linkedin_scraper.py
normalize_profile(profile) ==
    LET q == RStrip(Strip(profile), "/")
    IN  IF StartsWith(q, UrlPrefix) THEN PathHead(q, Len(UrlPrefix) + 1) ELSE q

\* the target normaliser of the running script
normalize_target(t) ==
    CASE sub_script = "x" -> normalize_handle(t)
      [] sub_script = "telegram" -> normalize_channel(t)
      [] sub_script = "linkedin" -> normalize_profile(t)

targetOther ==
    <<norm, source_handle, raw_items, ni, processed, origin, npass, first_pass,
      media_in, media_out, target_in,
      cfgVars, batchVars, jobVars, fetchVars, uniVars, subVars, sinkVars>>

\* main normalises the target it was given and displays it
NormalizeTarget ==
    /\ tpc = "given"
    /\ target_shown' = normalize_target(target_in)
    /\ tpc' = "shown"
    /\ UNCHANGED <<target_sent, targetOther>>

\* the normaliser is applied to the normalised target: by
\* scrape_single_handle (X) and scrape_profile (LinkedIn) before the target
\* goes into the actor input
NormalizeTargetAgain ==
    /\ tpc = "shown"
    /\ target_sent' = normalize_target(target_shown)
    /\ tpc' = "sent"
    /\ UNCHANGED <<target_shown, targetOther>>

InitTarget ==
    /\ sub_script \in {"x", "telegram", "linkedin"}
    /\ actor = "ppr" /\ nh = 0 /\ ns = 0 /\ nu = 0
    /\ max_posts = 0 /\ days = 0 /\ posts_from = 0 /\ posts_to = 0
    /\ spc = "idle" /\ si = 1 /\ jobs = <<>>
    /\ target_in \in TargetStrings
    /\ target_shown = <<>>
    /\ target_sent = <<>>
    /\ tpc = "given"
    /\ norm = "x" /\ source_handle = "" /\ raw_items = <<>> /\ ni = 1
    /\ processed = <<>> /\ origin = <<>> /\ npass = 1 /\ first_pass = <<>>
    /\ media_in = <<>> /\ media_out = <<>>
    /\ InitBatchIdle
    /\ InitUnifiedIdle
    /\ export_rows = <<>>

NextTarget == NormalizeTarget \/ NormalizeTargetAgain

SpecTarget == InitTarget /\ [][NextTarget]_vars

----------------------------------------------------------------------------
(* The request of a run and the jobs it submits: build_actor_input and the  *)
(* submission structure of the three mains. A target (handle, channel,     *)
(* profile, search term, URL) is its position in the list it was given in. *)
(* A job is the actor input posted to create its run; what happens to the  *)
(* run afterwards is the subject of the batch specification.               *)

\* value of a field the actor input does not hold
NA == -1
\* the list of the first n targets
Idx(n) == [i \in 1..n |-> i]
Max(a, b) == IF a > b THEN a ELSE b

\* ACTORS of the scripts
ActorsOf(sc) ==
    CASE sc = "x" -> {"ppr", "search", "full"}
      [] sc = "telegram" -> {"media", "posts", "messages"}
      [] sc = "linkedin" -> {"profile_posts"}
\* ACTORS[...]['multi_handle'] of apify_x_scraper.py
MultiHandle(a) == a = "full"

\* build_actor_input of apify_x_scraper.py, called with handle (0 for None),
\* handles, search_terms, urls; 'ppr' and 'search' join the search terms into
\* one query and use them only when there is no handle
x_build_actor_input(a, handle, handles, terms, urls, max_tweets) ==
    IF a \in {"ppr", "search"}
    THEN [targets |-> IF handle # 0 THEN <<handle>> ELSE <<>>,
          search |-> IF handle = 0 THEN terms ELSE <<>>,
          urls |-> <<>>,
          maxPosts |-> max_tweets,
          daysRange |-> NA, postsFrom |-> NA, postsTo |-> NA, total_posts |-> NA]
    ELSE [targets |-> handles,
          search |-> terms,
          urls |-> urls,
          maxPosts |-> max_tweets * Max(Max(Len(handles), Len(terms)), 1),
          daysRange |-> NA, postsFrom |-> NA, postsTo |-> NA, total_posts |-> NA]

\* min(value, maximum) of the builders
Clamp_None(v, top) == v
Clamp(v, top) == IF v < top THEN v ELSE top

\* build_actor_input of apify_telegram_scraper.py
telegram_build_actor_input(a, channels, mp, d, pfrom, pto) ==
    CASE a = "media" ->
            [targets |-> channels, search |-> <<>>, urls |-> <<>>,
             maxPosts |-> Clamp(mp, MediaMaxPosts),
             daysRange |-> Clamp(d, MediaMaxDays),
             postsFrom |-> NA, postsTo |-> NA, total_posts |-> NA]
      [] a = "posts" ->
            [targets |-> channels, search |-> <<>>, urls |-> <<>>,
             maxPosts |-> NA, daysRange |-> NA,
             postsFrom |-> IF pfrom = 0 THEN 1 ELSE pfrom,
             postsTo |-> IF pto = 0 THEN mp ELSE pto,
             total_posts |-> NA]
      [] a = "messages" ->
            [targets |-> << channels[1] >>, search |-> <<>>, urls |-> <<>>,
             maxPosts |-> mp, daysRange |-> d,
             postsFrom |-> NA, postsTo |-> NA, total_posts |-> NA]

\* run_input of scrape_profile of apify_linkedin_scraper.py
linkedin_run_input(profile, mp) ==
    [targets |-> << profile >>, search |-> <<>>, urls |-> <<>>,
     maxPosts |-> Clamp(mp, LinkedInMaxLimit),
     daysRange |-> NA, postsFrom |-> NA, postsTo |-> NA, total_posts |-> mp]

\* main of X and LinkedIn: the handles / profiles served, the defaults when
\* the request names nothing
Handles ==
    IF sub_script = "x" /\ nh = 0 /\ ns = 0 /\ nu = 0 THEN NDefault
    ELSE IF sub_script = "linkedin" /\ nh = 0 THEN NDefault
    ELSE nh

subCfgVars == <<sub_script, actor, nh, ns, nu, max_posts, days, posts_from, posts_to>>
subOther == <<cfgVars, batchVars, jobVars, fetchVars, uniVars, normVars, sinkVars>>

\* main of X, "if actor_info.get('multi_handle') and normalized": one run
\* for the handles, search terms and URLs together; a response without a run
\* id ends the process
XMultiRun ==
    /\ spc = "start" /\ sub_script = "x"
    /\ MultiHandle(actor) /\ Handles > 0
    /\ jobs = <<>>
    /\ jobs' = << x_build_actor_input(actor, 0, Idx(Handles), Idx(ns), Idx(nu), max_posts) >>
    /\ spc' \in {"done", "exited"}
    /\ UNCHANGED <<si, subCfgVars, subOther>>

\* main of X, else branch, "for i, handle in enumerate(normalized, 1)":
\* scrape_single_handle builds the input of one handle and starts its run
XHandleRun ==
    /\ spc = "start" /\ sub_script = "x"
    /\ ~(MultiHandle(actor) /\ Handles > 0)
    /\ si <= Handles
    /\ jobs' = Append(jobs, x_build_actor_input(actor, si, <<>>, <<>>, <<>>, max_posts))
    /\ si' = si + 1
    /\ UNCHANGED <<spc, subCfgVars, subOther>>

\* main of X, else branch, "for term in args.search": one run per term,
\* after the handles; args.urls is not read in this branch
XSearchRun ==
    /\ spc = "start" /\ sub_script = "x"
    /\ ~(MultiHandle(actor) /\ Handles > 0)
    /\ si > Handles /\ si - Handles <= ns
    /\ jobs' = Append(jobs, x_build_actor_input(actor, 0, <<>>, << si - Handles >>, <<>>, max_posts))
    /\ si' = si + 1
    /\ UNCHANGED <<spc, subCfgVars, subOther>>

\* main of X, else branch: both loops are over
XLoopsDone ==
    /\ spc = "start" /\ sub_script = "x"
    /\ ~(MultiHandle(actor) /\ Handles > 0)
    /\ si > Handles + ns
    /\ spc' = "done"
    /\ UNCHANGED <<si, jobs, subCfgVars, subOther>>

\* main of Telegram: one input for all channels, one run
TelegramRun ==
    /\ spc = "start" /\ sub_script = "telegram"
    /\ jobs = <<>>
    /\ jobs' = << telegram_build_actor_input(actor, Idx(nh), max_posts, days,
                                             posts_from, posts_to) >>
    /\ spc' \in {"done", "exited"}
    /\ UNCHANGED <<si, subCfgVars, subOther>>

\* main of LinkedIn, "for i, profile in enumerate(profiles, 1)":
\* scrape_profile builds the run input of one profile and starts its run
LinkedInProfileRun ==
    /\ spc = "start" /\ sub_script = "linkedin"
    /\ si <= Handles
    /\ jobs' = Append(jobs, linkedin_run_input(si, max_posts))
    /\ si' = si + 1
    /\ UNCHANGED <<spc, subCfgVars, subOther>>

\* main of LinkedIn: the loop is over
LinkedInLoopDone ==
    /\ spc = "start" /\ sub_script = "linkedin"
    /\ si > Handles
    /\ spc' = "done"
    /\ UNCHANGED <<si, jobs, subCfgVars, subOther>>

\* values of --max-posts / --max-tweets, --days, --posts-from, --posts-to
\* (0 stands for None) that lie on both sides of the providers' maxima
MaxPostsValues == {50, 150, 250}
DaysValues == {7, 45}
PostsFromValues == {0, 10}
PostsToValues == {0, 20}

InitSubmit ==
    /\ sub_script \in {"x", "telegram", "linkedin"}
    /\ actor \in ActorsOf(sub_script)
    /\ nh \in (IF sub_script = "telegram" THEN 1..MaxHandles ELSE 0..MaxHandles)
    /\ ns \in (IF sub_script = "x" THEN 0..MaxSearch ELSE {0})
    /\ nu \in (IF sub_script = "x" THEN 0..MaxUrls ELSE {0})
    /\ max_posts \in MaxPostsValues
    /\ days \in (IF sub_script = "telegram" THEN DaysValues ELSE {0})
    /\ posts_from \in (IF sub_script = "telegram" THEN PostsFromValues ELSE {0})
    /\ posts_to \in (IF sub_script = "telegram" THEN PostsToValues ELSE {0})
    /\ spc = "start" /\ si = 1 /\ jobs = <<>>
    /\ export_rows = <<>>
    /\ InitBatchIdle /\ InitUnifiedIdle /\ InitNormIdle

NextSubmit ==
    \/ XMultiRun \/ XHandleRun \/ XSearchRun \/ XLoopsDone
    \/ TelegramRun
    \/ LinkedInProfileRun \/ LinkedInLoopDone

SpecSubmit == InitSubmit /\ [][NextSubmit]_vars

----------------------------------------------------------------------------
(* Claims *)

RECURSIVE Concat(_, _)
\* f[1] \o ... \o f[n]
Concat(f, n) == IF n = 0 THEN <<>> ELSE Concat(f, n - 1) \o f[n]

PerTarget == script \in {"x", "linkedin"}

\* C1: in the per-target loops of the X and LinkedIn scripts a target whose
\* job timed out or ended with a status other than SUCCEEDED contributes no
\* record, the next target's job is submitted all the same, and the aggregate
\* is exactly the records the targets' calls returned, in order; a batch that
\* reaches save_results has submitted one job for every target, and what a
\* succeeding target's call returned is the normalisation of its fetched
\* items.
C1_FailedTargetDoesNotStopBatch ==
    PerTarget =>
        /\ \A t \in 1..ntargets : outcome[t] = "failed" =>
            /\ yielded[t] = <<>>
            /\ \A i \in DOMAIN all_results : all_results[i].target # t
            /\ t < ntargets => (submits[t + 1] = 1 \/ (pc = "submit" /\ idx = t + 1))
        /\ all_results = Concat(yielded, idx - 1)
        /\ pc \in {"save", "done"} => \A t \in 1..ntargets : submits[t] = 1
        /\ (pc \in {"submit", "save"} /\ idx > 1 /\ outcome[idx - 1] = "ok") =>
            /\ yielded[idx - 1] = process_results(items, idx - 1)
            /\ script = "x" => items = ds

C1_Witness ==
    /\ script = "x"
    /\ pc = "done"
    /\ ntargets >= 2
    /\ outcome[1] = "failed"
    /\ outcome[2] = "ok"
    /\ Len(all_results) >= 1
    /\ exported

\* C2: a non-2xx answer to a status request or to a dataset request of one
\* target's job does not leave the per-target loop: no batch of the X or
\* LinkedIn script ends by the HTTPError of such a request.
C2_TransportErrorDoesNotCrashBatch ==
    PerTarget => raised \notin {"poll", "last_poll", "fetch"}

\* C3: a failed create-run request is fatal for its job only: it is not
\* retried and it does not end the batch.
C3_SubmissionErrorFatalForJobOnly ==
    PerTarget =>
        /\ \A t \in 1..ntargets : submits[t] <= 1
        /\ raised # "submit"

C5_WaitBlocksUntilTerminalOrTimeout ==
    /\ (pc = "decide" /\ status \notin Terminal) =>
        (timedOut /\ now >= wait_timeout)
    /\ lateReqs = 0
    /\ observed \in Terminal => (status = observed /\ pc # "poll")

C5_Witness ==
    /\ pc = "decide"
    /\ statusReqs = 2
    /\ observed = "FAILED"
    /\ status = "FAILED"
    /\ ~timedOut
    /\ now < wait_timeout

\* C6: a dataset is read only for a job whose final status is SUCCEEDED, in
\* every script.
C6_FetchOnlyAfterSucceeded ==
    pc = "fetch" => status = "SUCCEEDED"

\* the run of get_dataset_items of the X or Telegram script has returned
FetchReturned == script # "linkedin" /\ outcome[1] = "ok"

\* C7: get_dataset_items of the X and Telegram scripts returns the dataset:
\* every item once, in the order of the collection.
C7_FetchReturnsWholeDataset ==
    FetchReturned => items = ds

C7_Witness ==
    /\ FetchReturned
    /\ limit = 2
    /\ Len(ds) = 4
    /\ items = ds

CeilDiv(n, p) == (n + p - 1) \div p

\* C8 as stated: get_dataset_items makes ceil(N/P) page requests.
C8_CeilPageRequests ==
    FetchReturned => pageReqs = CeilDiv(Len(ds), limit)

\* C8 amended: get_dataset_items makes floor(N/P) + 1 page requests, which
\* is ceil(N/P) unless N is a multiple of P (N = 0 included), when it is one
\* more.
C8_FloorPlusOnePageRequests ==
    FetchReturned => pageReqs = (Len(ds) \div limit) + 1

C8_Witness ==
    /\ FetchReturned
    /\ limit = 2
    /\ Len(ds) = 4
    /\ pageReqs = 3

\* a credential is present: the variable is set to a non-empty value
Present(v) == v # "<unset>" /\ v # ""
SessionCredentials == Present(env_api_id) /\ Present(env_api_hash)

\* the backend C9 names for the configuration, "fail" when selection fails
ExpectedBackend ==
    CASE backend = "apify" -> IF Present(env_token) THEN "apify" ELSE "fail"
      [] backend = "telethon" -> IF SessionCredentials THEN "telethon" ELSE "fail"
      [] OTHER -> IF Present(env_token) THEN "apify"
                  ELSE IF SessionCredentials THEN "telethon"
                  ELSE "fail"

\* C9: select_backend depends only on the pinned backend and on which
\* credentials are present: a pinned backend is returned when its credentials
\* are present and selection fails otherwise; AUTO gives apify when the token
\* is present, else telethon when api-id and api-hash both are, else fails.
\* scrape works with that very backend.
C9_SelectBackendByCredentials ==
    /\ select_backend(backend, env_token, env_api_id, env_api_hash) =
         (IF ExpectedBackend = "fail" THEN "ValueError" ELSE ExpectedBackend)
    /\ upc \notin {"idle", "main"} =>
         IF ExpectedBackend = "fail"
         THEN selected = "none" /\ upc \in {"returned", "crashed"}
         ELSE selected = ExpectedBackend

C9_Witness ==
    /\ backend = "auto"
    /\ ~Present(env_token)
    /\ SessionCredentials
    /\ selected = "telethon"
    /\ upc = "iterate"
    /\ uraised = "none"

\* some work of a scrape was done: a client created, a session started, a
\* job submitted, a channel iterated, a record or an output file produced
WorkDone ==
    \/ connects > 0
    \/ started > 0
    \/ disconnects > 0
    \/ actor_calls > 0
    \/ iterated # <<>>
    \/ all_messages # <<>>
    \/ messages # <<>>
    \/ files

\* C10: when backend selection fails (a pinned backend without its
\* credentials, or AUTO without any), main ends at once, by returning or by
\* select_backend's error, and no work is ever done.
C10_SelectionFailureBeforeAnyWork ==
    ExpectedBackend = "fail" =>
        /\ ~WorkDone
        /\ upc \in {"idle", "main", "returned", "crashed"}
        /\ upc = "crashed" => uraised = "select"

C10_Witness ==
    /\ backend = "telethon"
    /\ Present(env_token)
    /\ ~SessionCredentials
    /\ upc = "crashed"
    /\ uraised = "select"
    /\ ~WorkDone

\* the unified run is over: main returned or an exception left it
UnifiedExited == upc \in {"returned", "done", "crashed"}

\* C11: on the session-client path, once the session has been acquired
\* (client.start() begun) it has been released (disconnect called) by the time
\* the run is over, whichever way it ended, an exception of start() or of a
\* channel's iteration included.
C11_SessionReleasedOnEveryExit ==
    (UnifiedExited /\ started > 0) => disconnects > 0

\* C12: on the session-client path one session is acquired per batch (one
\* client, one start(), at most one disconnect), the channels are iterated one
\* after the other in config order, and no channel is iterated once the
\* session has been released.
C12_OneSessionSequentialChannels ==
    /\ [](selected = "telethon" =>
            /\ connects <= 1 /\ started <= 1 /\ disconnects <= 1
            /\ Len(iterated) > 0 => connects = 1 /\ started = 1
            /\ Len(iterated) <= nchannels
            /\ \A k \in DOMAIN iterated : iterated[k] = k)
    /\ [][selected = "telethon" =>
            /\ iterated' # iterated =>
                  /\ disconnects = 0
                  /\ iterated' = Append(iterated, Len(iterated) + 1)
            /\ connects' >= connects]_vars

C12_Witness ==
    /\ selected = "telethon"
    /\ upc = "done"
    /\ nchannels = MaxChannels
    /\ Len(iterated) = MaxChannels
    /\ disconnects = 1

\* C13: on the session-client path an error while one channel is scraped
\* does not end the scrape: the exception never leaves scrape, the records of
\* the earlier channels are kept and the later channels are still scraped.
C13_ChannelErrorDoesNotAbortSiblings ==
    /\ uraised # "iterate"
    /\ (selected = "telethon" /\ upc \in {"filter", "save", "done"}) =>
           Len(iterated) = nchannels

\* targets of the batch whose job failed or timed out (no run id, a final
\* status other than SUCCEEDED, no dataset)
FailedTargets ==
    { t \in 1..ntargets : outcome[t] \in {"nostart", "failed", "nodataset"} }

\* C14: a batch of the X or LinkedIn script that ran to its end reports its
\* per-target failures: its exit status tells a batch in which some target's
\* job failed or timed out from one in which every job succeeded.
C14_BatchReportsFailures ==
    (PerTarget /\ pc = "done") =>
        (ExitStatus = 0 <=> Cardinality(FailedTargets) = 0)

\* two characters that differ at most in case
EqNoCase(c, d) == c = d \/ {c, d} \in {{"a", "A"}, {"b", "B"}}
\* kw occurs in str, case ignored
ContainsNoCase(kw, str) ==
    \E i \in 0..(Len(str) - Len(kw)) :
        \A j \in 1..Len(kw) : EqNoCase(str[i + j], kw[j])
\* the text and the view count of a record, null read as '' and 0
TextOf(r) == IF r.text.null THEN <<>> ELSE r.text.v
ViewsOf(r) == IF r.views.null THEN 0 ELSE r.views.v
PassesKeywords(r) ==
    \/ filter_keywords = <<>>
    \/ \E k \in DOMAIN filter_keywords : ContainsNoCase(filter_keywords[k], TextOf(r))
PassesViews(r) == ViewsOf(r) >= filter_min_views
PassesBoth(r) == PassesKeywords(r) /\ PassesViews(r)
Filtered == upc \in {"save", "done"}

\* C15: _apply_filters returns exactly the records that pass both the keyword
\* filter (empty keyword list, or some keyword is a case-insensitive substring
\* of the text) and the view filter (views >= min_views).
C15_FilterKeepsExactlyPassingRecords ==
    Filtered => messages = SelectSeq(all_messages, PassesBoth)

C15_Witness ==
    /\ Filtered
    /\ filter_keywords = << <<"B">>, <<"a", "b">> >>
    /\ filter_min_views = 5
    /\ Len(all_messages) = 3
    /\ Len(messages) = 1
    /\ \E i \in DOMAIN all_messages : PassesKeywords(all_messages[i]) /\ ~PassesViews(all_messages[i])
    /\ \E i \in DOMAIN all_messages : ~PassesKeywords(all_messages[i]) /\ PassesViews(all_messages[i])

RECURSIVE IsSubseq(_, _)
\* a is b with some elements left out
IsSubseq(a, b) ==
    IF a = <<>> THEN TRUE
    ELSE IF b = <<>> THEN FALSE
    ELSE IF Head(a) = Head(b) THEN IsSubseq(Tail(a), Tail(b))
    ELSE IsSubseq(a, Tail(b))
\* number of occurrences of r in seq
Count(seq, r) == Cardinality({ i \in DOMAIN seq : seq[i] = r })

\* C16: the output of _apply_filters is a subsequence of its input (order
\* preserved), a record that is kept is kept as many times as it occurs in the
\* input, and with no keyword and min_views = 0 the output is the input.
C16_FilterOutputIsSubsequence ==
    Filtered =>
        /\ IsSubseq(messages, all_messages)
        /\ \A j \in DOMAIN messages :
              Count(messages, messages[j]) = Count(all_messages, messages[j])
        /\ (filter_keywords = <<>> /\ filter_min_views = 0) => messages = all_messages

C16_Witness ==
    /\ Filtered
    /\ Len(all_messages) = 3
    /\ Len(messages) = 2
    /\ messages[1] = messages[2]
    /\ all_messages[1] = all_messages[3]
    /\ all_messages[2] # all_messages[1]

\* the record is in the output of _apply_filters
Kept(r) == \E j \in DOMAIN messages : messages[j] = r
HasEmptyKeyword == \E k \in DOMAIN filter_keywords : filter_keywords[k] = <<>>

\* C17 as stated: a record whose views is null passes the view filter iff
\* min_views <= 0, and a record whose text is null matches no keyword: it is
\* kept only when the keyword list is empty.
C17_NullTextMatchesNoKeyword ==
    Filtered =>
        \A i \in DOMAIN all_messages :
            LET r == all_messages[i]
            IN  /\ r.views.null =>
                      (Kept(r) <=> (filter_min_views <= 0 /\ PassesKeywords(r)))
                /\ r.text.null =>
                      (Kept(r) <=> (filter_keywords = <<>> /\ PassesViews(r)))

\* C17 amended: a null views is read as 0 and a null text as the empty
\* string, which matches an empty keyword and no other: the record is kept by
\* the keyword filter iff the keyword list is empty or holds an empty keyword.
C17_NullReadAsZeroAndEmptyString ==
    Filtered =>
        \A i \in DOMAIN all_messages :
            LET r == all_messages[i]
            IN  /\ r.views.null =>
                      (Kept(r) <=> (filter_min_views <= 0 /\ PassesKeywords(r)))
                /\ r.text.null =>
                      (Kept(r) <=> ((filter_keywords = <<>> \/ HasEmptyKeyword)
                                    /\ PassesViews(r)))

C17_Witness ==
    /\ Filtered
    /\ filter_keywords = << <<"a">> >>
    /\ filter_min_views = 0
    /\ \E i \in DOMAIN all_messages :
          all_messages[i].views.null /\ Kept(all_messages[i])
    /\ \E i \in DOMAIN all_messages :
          all_messages[i].text.null /\ ~Kept(all_messages[i])

\* the candidate keys of the canonical fields, in priority order
Candidates ==
    [x |-> [tweet_id |-> <<"tweet_id", "id", "id_str">>,
            date |-> <<"created_at", "createdAt", "date", "timestamp">>,
            text |-> <<"text", "full_text", "tweetText", "content">>,
            views |-> <<"views", "viewCount">>],
     telegram |-> [id |-> <<"id", "messageId", "postId", "post_id">>,
                   channel |-> <<"channel", "channelUsername", "channelName",
                                 "source", "profileName">>,
                   date |-> <<"date", "timestamp", "datetime", "postDate", "created_at">>,
                   text |-> <<"text", "message", "content", "postText">>,
                   views |-> <<"views", "viewCount", "view_count">>,
                   url |-> <<"url", "postUrl", "link", "post_url">>],
     unified |-> [id |-> <<"id", "messageId">>,
                  channel |-> <<"channel", "channelUsername">>,
                  date |-> <<"date", "timestamp">>,
                  text |-> <<"text", "message">>,
                  views |-> << "views" >>,
                  url |-> << "url" >>]]
\* the declared default of a canonical field: 0 for counts, '' otherwise
Default(f) == IF f = "views" THEN "<0>" ELSE ""
\* the raw record the i-th canonical record was built from
RawOf(i) == raw_items[origin[i]]
PresentKeys(item, keys) == { n \in DOMAIN keys : item[keys[n]] # Absent }

\* C18: a canonical field none of whose candidate keys is in the raw record
\* holds its declared default ('' for id, channel, date, url and text, 0 for
\* counts), in the records of process_results (X, Apify-Telegram) and of
\* ApifyScraper.scrape_channels.
C18_MissingFieldGetsDefault ==
    norm \in {"x", "telegram", "unified"} =>
        \A i \in DOMAIN processed :
            \A f \in DOMAIN Candidates[norm] :
                PresentKeys(RawOf(i), Candidates[norm][f]) = {} =>
                    processed[i][f] = Default(f)

RECURSIVE FirstPresent(_, _)
\* the value of the first key of keys that the raw record holds
FirstPresent(item, keys) ==
    IF keys = <<>> THEN None
    ELSE IF item[Head(keys)] # Absent THEN item[Head(keys)]
    ELSE FirstPresent(item, Tail(keys))

RECURSIVE FirstTruthy(_, _, _)
\* the first value under keys that is neither absent, null, 0 nor '', and
\* `last` when there is none
FirstTruthy(item, keys, last) ==
    IF keys = <<>> THEN last
    ELSE IF item[Head(keys)] \notin {Absent, None, "<0>", ""} THEN item[Head(keys)]
    ELSE FirstTruthy(item, Tail(keys), last)

\* what a chain yields when no candidate is truthy: its literal default, or
\* for the chains of Apify-Telegram that end in a key (id, channel, date, url)
\* whatever item.get of that last key returns
LastOperand(item, f) ==
    IF norm = "telegram" /\ f \in {"id", "channel", "date", "url"}
    THEN LET keys == Candidates[norm][f]
         IN  IF item[keys[Len(keys)]] = Absent THEN None ELSE item[keys[Len(keys)]]
    ELSE Default(f)

\* C19 as stated: when a raw record holds two or more candidate keys of a
\* field, the canonical field is the value of the first of them in priority
\* order, whatever the values are.
C19_FirstPresentKeyWins ==
    norm \in {"x", "telegram"} =>
        \A i \in DOMAIN processed :
            \A f \in DOMAIN Candidates[norm] :
                Cardinality(PresentKeys(RawOf(i), Candidates[norm][f])) >= 2 =>
                    processed[i][f] = FirstPresent(RawOf(i), Candidates[norm][f])

\* C19 amended: when a raw record holds two or more candidate keys of a
\* field, the canonical field is the value of the first of them in priority
\* order that is truthy; a key holding null, 0 or '' is passed over, and when
\* none is truthy the field is what its chain ends with.
C19_FirstTruthyKeyWins ==
    norm \in {"x", "telegram"} =>
        \A i \in DOMAIN processed :
            \A f \in DOMAIN Candidates[norm] :
                Cardinality(PresentKeys(RawOf(i), Candidates[norm][f])) >= 2 =>
                    processed[i][f] =
                        FirstTruthy(RawOf(i), Candidates[norm][f], LastOperand(RawOf(i), f))

C19_Witness ==
    /\ norm = "telegram"
    /\ \E i \in DOMAIN processed :
          /\ RawOf(i)["views"] = "<0>" /\ RawOf(i)["viewCount"] = "<9>"
          /\ processed[i].views = "<9>"
    /\ \E i \in DOMAIN processed :
          /\ RawOf(i)["views"] = "<7>" /\ RawOf(i)["viewCount"] = "<9>"
          /\ processed[i].views = "<7>"

Normalized == ni > Len(raw_items)

C21_OneRecordPerRawItem ==
    (norm \in {"x", "telegram"} /\ Normalized) =>
        /\ Len(processed) = Len(raw_items)
        /\ \A i \in DOMAIN processed : processed[i].raw_json = raw_items[i]

\* the item carries a truthy noResults or demo flag
Flagged(item) ==
    \/ item["noResults"] \notin {Absent, None, "<0>", ""}
    \/ item["demo"] \notin {Absent, None, "<0>", ""}
\* positions of the raw items a record is built from
RecordedItems ==
    { n \in DOMAIN raw_items : ~(norm = "x" /\ Flagged(raw_items[n])) }

\* C21 amended: process_results returns one record per raw item, in order,
\* none merged or duplicated, for Apify-Telegram for every item and for X for
\* every item but those flagged noResults or demo, which X drops.
C21_OneRecordPerUnflaggedItem ==
    (norm \in {"x", "telegram"} /\ Normalized) =>
        /\ Len(processed) = Cardinality(RecordedItems)
        /\ { origin[i] : i \in DOMAIN origin } = RecordedItems
        /\ \A i, j \in DOMAIN origin : i < j => origin[i] < origin[j]
        /\ \A i \in DOMAIN processed : processed[i].raw_json = raw_items[origin[i]]
        /\ norm = "telegram" => \A i \in DOMAIN processed : origin[i] = i

C21_Witness ==
    /\ norm = "x"
    /\ Normalized
    /\ Len(raw_items) = 3
    /\ Flagged(raw_items[2])
    /\ Len(processed) = 2
    /\ processed[2].raw_json = raw_items[3]

\* C22 as stated: a Telegram request with a post-number range (posts_from or
\* posts_to set) for the 'media' or 'messages' actor, which only take a day
\* count, is rejected before any network call, so no job is ever posted for
\* it. The code has no such rejection: the range is dropped and the job is
\* posted.
MixedRequest ==
    /\ sub_script = "telegram"
    /\ actor \in {"media", "messages"}
    /\ (posts_from # 0 \/ posts_to # 0)
C22_MixedRequestIsRejected == MixedRequest => (jobs = <<>> /\ spc # "done")

\* C23: every job posted for the Telegram 'media' actor has maxPosts equal to
\* the requested max_posts capped at 200 and daysRange equal to the requested
\* days capped at 30, and every job posted by LinkedIn has limit equal to the
\* requested max_posts capped at 100; none of these fields exceeds its cap.
C23_BuilderClamps ==
    \A k \in 1..Len(jobs) :
        /\ (sub_script = "telegram" /\ actor = "media") =>
              /\ jobs[k].maxPosts = (IF max_posts > 200 THEN 200 ELSE max_posts)
              /\ jobs[k].daysRange = (IF days > 30 THEN 30 ELSE days)
              /\ jobs[k].maxPosts <= 200 /\ jobs[k].daysRange <= 30
        /\ sub_script = "linkedin" =>
              /\ jobs[k].maxPosts = (IF max_posts > 100 THEN 100 ELSE max_posts)
              /\ jobs[k].maxPosts <= 100
C23_Witness ==
    /\ jobs # <<>>
    /\ sub_script = "telegram" /\ actor = "media"
    /\ max_posts > 200 /\ days > 30
    /\ jobs[1].maxPosts = 200 /\ jobs[1].daysRange = 30

\* C24 as stated: a request served by the multi-target X actor ('full') ends
\* with exactly one job posted, whose input holds all the handles, search
\* terms and URLs of the request, whatever mix the request is. The code does
\* so only when the request has handles: without handles it posts one job per
\* search term and none for the URLs.
C24_OneJobEmbedsAllTargets ==
    (sub_script = "x" /\ MultiHandle(actor) /\ spc = "done") =>
        /\ Len(jobs) = 1
        /\ jobs[1].targets = Idx(Handles)
        /\ jobs[1].search = Idx(ns)
        /\ jobs[1].urls = Idx(nu)

\* the targets whose job was posted and whose call has not returned
InFlight == { t \in 1..ntargets : submits[t] >= 1 /\ outcome[t] = "pending" }

\* C25: in the per-target loops of the X and LinkedIn scripts no target's job
\* is posted twice, jobs are posted in the order of the target list, a job is
\* posted only when the calls of all earlier targets have returned, and at
\* most one job of the batch is in flight at any time.
C25_OneJobPerTargetInSequence ==
    /\ [](PerTarget =>
            /\ \A t \in 1..ntargets : submits[t] <= 1
            /\ \A t \in 1..ntargets : submits[t] = 1 =>
                    \A u \in 1..(t - 1) : submits[u] = 1
            /\ Cardinality(InFlight) <= 1
            /\ run_id # 0 => InFlight = {run_id})
    /\ [][PerTarget =>
            \A t \in 1..ntargets : submits'[t] > submits[t] =>
                /\ t = idx
                /\ InFlight = {}
                /\ \A u \in 1..(t - 1) : submits[u] = 1 /\ outcome[u] # "pending"]_vars

C25_Witness ==
    /\ PerTarget
    /\ ntargets >= 2
    /\ submits[1] = 1 /\ submits[2] = 1
    /\ outcome[1] = "failed"
    /\ InFlight = {2}
    /\ pc = "poll"

\* the records of the targets whose job succeeded and was fetched, in order
RecordsOfSucceeded ==
    Concat([t \in 1..ntargets |-> IF outcome[t] = "ok" THEN yielded[t] ELSE <<>>],
           ntargets)

\* the process of the batch is over
BatchEnded == pc \in {"done", "exited", "crashed"}

\* C26 as stated: a batch that is over has written its export files exactly
\* when some target yielded a record, even if other targets failed; a batch
\* whose targets all failed or returned nothing wrote none, and a written
\* export holds exactly the records of the targets that succeeded, in order.
\* The code does so for a batch that reaches save_results; a batch that a
\* non-2xx answer to a later target's request ends writes nothing, whatever
\* the earlier targets yielded.
C26_ExportIffRecords ==
    /\ BatchEnded =>
        /\ exported <=> (\E t \in 1..ntargets : yielded[t] # <<>>)
        /\ exported => export_rows = RecordsOfSucceeded
    /\ ~exported => export_rows = <<>>
    /\ ~BatchEnded => ~exported

\* C27 as stated: for one job, no status request and no dataset-page request
\* is issued once wait_timeout has elapsed since polling began. The X and
\* Telegram scripts issue one more status request after the loop has found
\* the timeout elapsed.
C27_NoRequestAfterTimeout ==
    [][(statusReqs' > statusReqs \/ pageReqs' > pageReqs) => now <= wait_timeout]_vars

\* the items the answered dataset request of a step delivered
Delivered == Len(items') - Len(items)

\* C29 as stated: in every script the k-th dataset request of
\* get_dataset_items asks for offset (k - 1) * limit and gets at most limit
\* items, and another request follows exactly when it got limit items. The
\* LinkedIn script makes one request without offset or limit and takes
\* whatever it delivers.
C29_PagesOfLimitAtRisingOffsets ==
    [][(pageReqs' > pageReqs /\ pc' # "crashed") =>
            /\ offset = pageReqs * limit
            /\ Delivered <= limit
            /\ pc' = "fetch" <=> Delivered = limit]_vars

\* the phase of a batch of the unified scraper: 0 not started, 1 backend
\* chosen, 2 per-target loop, 3 aggregated, 4 filtered, 5 done; -1 when the
\* batch ended early (no backend, or an exception)
Phase(p) ==
    CASE p = "main" -> 0
      [] p = "connect" -> 1
      [] p = "iterate" -> 2
      [] p = "filter" -> 3
      [] p = "save" -> 4
      [] p = "done" -> 5
      [] OTHER -> -1

\* C28: a batch of the unified scraper moves through its phases in the order
\* not started, backend chosen, per-target loop, aggregated, filtered, done,
\* one phase at a time and never back (the single actor call of the Apify
\* backend is its whole per-target loop); the backend is chosen once, before
\* any target is touched; the filter runs once, after every target was
\* aggregated; and what is saved is the filtered sequence.
C28_PhasesInOrder ==
    /\ [](/\ Phase(upc) = 0 => selected = "none"
          /\ Phase(upc) \in 0..1 =>
                (iterated = <<>> /\ actor_calls = 0 /\ all_messages = <<>>)
          /\ Phase(upc) >= 1 => selected \in {"apify", "telethon"}
          /\ Phase(upc) >= 3 =>
                /\ selected = "telethon" => iterated = [c \in 1..nchannels |-> c]
                /\ selected = "apify" => actor_calls = 1
          /\ Phase(upc) \in 0..3 => messages = <<>>
          /\ Phase(upc) >= 4 =>
                messages = apply_filters(all_messages, filter_keywords, filter_min_views)
          /\ files => (upc = "done" /\ messages # <<>>))
    /\ [][/\ (upc' # upc /\ Phase(upc') >= 0) =>
                \/ Phase(upc') = Phase(upc) + 1
                \/ /\ upc = "connect" /\ upc' = "filter"
                   /\ selected = "apify" /\ actor_calls' = actor_calls + 1
          /\ (Phase(upc) < 0 \/ upc = "done") => upc' = upc
          /\ selected' # selected => Phase(upc) = 0
          /\ messages' # messages => (upc = "filter" /\ upc' = "save")
          /\ all_messages' # all_messages => Phase(upc) \in {1, 2}
          /\ files' # files => (upc = "save" /\ upc' = "done")]_vars

C28_Witness ==
    /\ upc = "done"
    /\ selected = "telethon"
    /\ nchannels = 2
    /\ iterated = <<1, 2>>
    /\ messages # <<>>
    /\ messages # all_messages
    /\ files

\* C30: the status request after a status request that did not end
\* wait_for_run is issued at least one poll interval later; wait_for_run
\* issues at most floor(timeout / interval) + 2 status requests for one job,
\* whatever the remote answers; and it always ends, also for a run that
\* never reaches a terminal status.
C30_PollingSleepsAndTerminates ==
    /\ [](statusReqs <= (wait_timeout \div PollInterval) + 2)
    /\ [][(statusReqs' > statusReqs /\ pc' = "poll") =>
                now' >= now + PollInterval]_vars
    /\ (pc = "poll") ~> (pc # "poll")

C30_Witness ==
    /\ pc = "decide"
    /\ script = "x"
    /\ wait_timeout = PollInterval
    /\ timedOut
    /\ status = "RUNNING"
    /\ statusReqs = (wait_timeout \div PollInterval) + 2

\* C31 as stated: in every script a status request or dataset request is
\* issued only for a job whose submission returned a run id, and the id of a
\* job stays the same from its submission to the return of its call. The
\* Telegram script polls also when the submission returned no id.
C31_RequestsOnlyWithJobId ==
    [][/\ (statusReqs' > statusReqs \/ pageReqs' > pageReqs) => run_id # 0
       /\ run_id' # run_id => (run_id = 0 \/ run_id' = 0)]_vars

\* the URL of a record as a sequence of parts, empty for no URL
UrlParts(rec) ==
    IF norm = "x" THEN rec.url
    ELSE IF Falsy(rec.url) THEN <<>> ELSE <<rec.url>>
\* the direct link the raw record supplies, None when it supplies none
DirectLink(item) ==
    IF norm = "x" THEN Or(Get(item, "url"), None)
    ELSE Or(Get(item, "url"), Or(Get(item, "postUrl"),
         Or(Get(item, "link"), Or(Get(item, "post_url"), None))))
\* the URL C32 names for a record built from item
CanonicalUrl(item, rec) ==
    LET id == IF norm = "x" THEN rec.tweet_id ELSE rec.id
        target == IF norm = "x" THEN rec.handle ELSE rec.channel
    IN  IF DirectLink(item) # None THEN <<DirectLink(item)>>
        ELSE IF ~Falsy(id) /\ ~Falsy(target)
        THEN IF norm = "x" THEN <<"https://x.com/", target, "/status/", id>>
             ELSE <<"https://t.me/", target, "/", id>>
        ELSE <<>>

\* C32 as stated: the URL of a record of the X or Telegram normaliser is
\* the direct link of the raw record when it supplies one, otherwise the
\* template filled with id and source target when both are non-empty, and
\* empty otherwise. The X normaliser never reads the raw record's link and
\* the Telegram normaliser never fills the template.
C32_CanonicalUrl ==
    norm \in {"x", "telegram"} =>
        \A k \in 1..Len(processed) :
            UrlParts(processed[k]) = CanonicalUrl(raw_items[origin[k]], processed[k])

\* the first non-empty of text, full_text, tweetText, content of an X item,
\* the empty text when there is none
TweetTextKeys == <<"text", "full_text", "tweetText", "content">>
NonEmptyAt(item, i) == item[TweetTextKeys[i]] \notin {Absent, None, ""}
TweetText(item) ==
    IF \E i \in 1..4 : NonEmptyAt(item, i)
    THEN LET first == CHOOSE i \in 1..4 :
                        NonEmptyAt(item, i) /\ \A j \in 1..(i - 1) : ~NonEmptyAt(item, j)
         IN  item[TweetTextKeys[first]]
    ELSE ""
\* the text begins with the characters R, T, space, @
BeginsWithRT(t) ==
    LET cs == Chars(t)
    IN  Len(cs) >= 4 /\ cs[1] = "R" /\ cs[2] = "T" /\ cs[3] = " " /\ cs[4] = "@"

\* C33: for every X raw record whose text values are strings or null,
\* is_retweet is a boolean, true exactly when the record's text (the first
\* non-empty of text, full_text, tweetText, content) begins with 'RT @';
\* it is false for an empty text.
C33_RetweetIffMarkerPrefix ==
    norm = "x" =>
        \A k \in 1..Len(processed) :
            LET t == TweetText(raw_items[origin[k]])
            IN  /\ processed[k].text = t
                /\ processed[k].is_retweet \in BOOLEAN
                /\ processed[k].is_retweet <=> BeginsWithRT(t)
                /\ t = "" => ~processed[k].is_retweet

C33_Witness ==
    /\ norm = "x"
    /\ Len(processed) = 1
    /\ raw_items[1]["text"] = ""
    /\ raw_items[1]["full_text"] = "RT @b"
    /\ processed[1].text = "RT @b"
    /\ processed[1].is_retweet

\* the URL an element of a media structure holds: the scalar itself, or the
\* first non-empty of an object's media_url_https and url; none for <<>>
IsUrl(v) == v \notin {Absent, None, ""}
ElementUrl(e) ==
    IF ~e.isdict THEN (IF IsUrl(e.value) THEN <<e.value>> ELSE <<>>)
    ELSE IF IsUrl(e.media_url_https) THEN <<e.media_url_https>>
    ELSE IF IsUrl(e.url) THEN <<e.url>>
    ELSE <<>>
RECURSIVE ElementUrls(_)
ElementUrls(es) ==
    IF es = <<>> THEN <<>> ELSE ElementUrl(Head(es)) \o ElementUrls(Tail(es))
\* every URL of the media of a raw record, in the order of the traversal
RawMediaUrls(media) ==
    IF norm = "x"
    THEN ElementUrls(media["media"].entries) \o ElementUrls(media["photo"].entries)
            \o ElementUrls(media["video"].entries)
            \o ElementUrls(media["animated_gif"].entries)
    ELSE ElementUrls(media["mediaUrl"].entries) \o ElementUrls(media["imageUrl"].entries)
            \o ElementUrls(media["media_urls"].entries)
            \o ElementUrls(media["photo"].entries)
            \o ElementUrls(media["images"].entries)

\* C34 as stated: media_urls of a record of the X or Telegram normaliser
\* lists every URL of the raw record's media (lists of objects, single
\* objects, scalar URLs), in traversal order, repeats kept. The X normaliser
\* passes over scalar URLs and single objects, and the Telegram normaliser
\* lists the text of an object instead of its URL.
C34_MediaUrlsFlattenRawMedia ==
    norm \in {"x", "telegram"} =>
        \A k \in 1..Len(processed) :
            media_out[k] = RawMediaUrls(media_in[origin[k]])

\* C35 as stated: every record a normaliser builds carries the raw record
\* it was built from, unchanged. The records of process_post (LinkedIn) and
\* of the unified scraper carry no raw record.
C35_RecordCarriesRawRecord ==
    \A k \in 1..Len(processed) :
        /\ "raw_json" \in DOMAIN processed[k]
        /\ processed[k].raw_json = raw_items[origin[k]]

\* x occurs in the sequence sq
InSeq(x, sq) == \E i \in 1..Len(sq) : sq[i] = x

\* C36 as stated: when the run of a non-empty X or Telegram request has
\* posted its jobs, every handle or channel, every search term and every URL
\* of the request is in the input of some posted job, and at least one job
\* was posted. The X script reads the URLs only in the single run of the
\* 'full' actor with handles, and the Telegram 'messages' input holds only
\* the first channel.
C36_EveryTargetInSomeJob ==
    (sub_script \in {"x", "telegram"} /\ spc = "done" /\ nh + ns + nu > 0) =>
        /\ jobs # <<>>
        /\ \A h \in 1..nh : \E k \in 1..Len(jobs) : InSeq(h, jobs[k].targets)
        /\ \A t \in 1..ns : \E k \in 1..Len(jobs) : InSeq(t, jobs[k].search)
        /\ \A u \in 1..nu : \E k \in 1..Len(jobs) : InSeq(u, jobs[k].urls)

\* C37 as stated: each target normaliser gives the same result when applied
\* to its own result, so the target main displays is the target sent. The
\* normalisers remove one leading '@' and strip blanks only before they cut
\* a URL, so a second application can change the result.
C37_NormalizeTargetIdempotent ==
    tpc = "sent" => target_sent = target_shown

\* sq is the beginning of tq
IsPrefix(sq, tq) == Len(sq) <= Len(tq) /\ SubSeq(tq, 1, Len(sq)) = sq
RECURSIVE SumLen(_, _)
\* Len(f[1]) + ... + Len(f[n])
SumLen(f, n) == IF n = 0 THEN 0 ELSE SumLen(f, n - 1) + Len(f[n])

\* C38: in the per-target loops (X, LinkedIn, and the channels of the
\* Telethon backend) the aggregate is the concatenation of the per-target
\* lists in the order of the targets: its length is the sum of their
\* lengths, its records are grouped by target in list order, and a turn of
\* the loop only appends, leaving the records of earlier targets as they
\* were.
C38_AggregateIsConcatenationInOrder ==
    /\ []((PerTarget /\ pc # "idle") =>
            /\ all_results = Concat(yielded, idx - 1)
            /\ Len(all_results) = SumLen(yielded, idx - 1)
            /\ \A i, j \in 1..Len(all_results) :
                    i < j => all_results[i].target <= all_results[j].target)
    /\ [](selected = "telethon" =>
            \A i, j \in 1..Len(all_messages) :
                i < j => all_messages[i].channel <= all_messages[j].channel)
    /\ [][/\ (PerTarget /\ pc # "idle") => IsPrefix(all_results, all_results')
          /\ selected = "telethon" =>
                /\ IsPrefix(all_messages, all_messages')
                /\ \A i \in (Len(all_messages) + 1)..Len(all_messages') :
                        all_messages'[i].channel = Len(iterated) + 1]_vars

C38_Witness ==
    /\ script = "x"
    /\ pc = "done"
    /\ ntargets >= 2
    /\ yielded[1] # <<>>
    /\ yielded[2] # <<>>
    /\ all_results = yielded[1] \o yielded[2]

\* C39: the time window is honoured whichever backend is selected: every
\* record scrape returned to main has a date t with date_from <= t when
\* date_from is set and t <= date_to when date_to is set
C39_WindowHonoured ==
    upc \in {"save", "done"} =>
        \A i \in 1..Len(messages) :
            /\ (date_from # 0 => messages[i].date >= date_from)
            /\ (date_to # 0 => messages[i].date <= date_to)

CountOf(c, msgs) == Len(SelectSeq(msgs, LAMBDA m : m.channel = c))

\* C40: the result limit is honoured whichever backend is selected: scrape
\* returns at most config.limit records per channel, hence at most
\* config.limit times the number of channels in all
C40_LimitHonoured ==
    upc \in {"save", "done"} =>
        /\ Len(messages) <= config_limit * nchannels
        /\ selected = "telethon" =>
                \A c \in 1..nchannels : CountOf(c, messages) <= config_limit

====
